---- MODULE Spec2Model ----
(***************************************************************************)
(* EncryptedOtpStore (src/src/otpStore.ts): per-identity one-time codes    *)
(* with failure counting, jailing, lifecycle events and encrypted          *)
(* persistence.  A store method runs synchronously up to its first await   *)
(* of save(); the file write it started lands later, and the method        *)
(* resumes after that.  Each of these is one step of the model.            *)
(***************************************************************************)
EXTENDS Integers, Sequences, FiniteSets, TLC

VARIABLES
  now,            \* Date.now(), in ticks
  keyHex,         \* this.keyHex after the constructor's validation
  otpMap,         \* this.otpMap: jid -> [code, expiresAt]
  failures,       \* this.failures: jid -> count
  jailedUntil,    \* this.jailedUntil: jid -> until
  otpFile,        \* content of <dataDir>/otps.enc
  pending,        \* save() calls in flight, with the method awaiting each
  last,           \* what the latest step did: call, return value, events
  wins,           \* history: verifies that matched since the entry was stored
  streak,         \* history: consecutive wrong-code verifies of an identity,
                  \* counted from a failure counter of 0
  writes,         \* history: file writes started so far
  caller,         \* "sequential": every call is awaited before the next one;
                  \* "concurrent": calls start while others are suspended;
                  \* "handler": the bot's message handler, awaiting each call
  consumerThrows, \* whether a registered event listener may throw
  config,         \* bot.ts: what start() read from the configuration
  configFile,     \* admin.adminChannel as config.json holds it
  bot,            \* bot.ts: the message handler's position and locals
  sent,           \* bot.ts: the reply that the latest step sent, if any
  access,         \* accessControl.ts: the cfg that createAccessControl was given
  asked,          \* the question that the latest step put to the access control
                  \* (or that the caller is about to put), and its answer
  rate,           \* bot.ts: the sliding-window rate limiter's timestamps
  asyncQueue,     \* threads.ts: the closure of one queue made by createQueue
  cli             \* cli.ts: history of the unjail commands run beside the bot: the
                  \* jail records they removed from the file, jid -> until

vars == <<now, keyHex, otpMap, failures, jailedUntil, otpFile, pending, last,
          wins, streak, writes, caller, consumerThrows, config, configFile, bot, sent,
          access, asked, rate, asyncQueue, cli>>

storeVars == <<now, keyHex, otpMap, failures, jailedUntil, otpFile, pending, last,
               wins, streak, writes, caller, consumerThrows>>

\* what a step of the message handler leaves alone
sideVars == <<access, asked, rate, asyncQueue, cli>>

botVars == <<config, configFile, bot, sent, sideVars>>

env == <<now, keyHex, caller, consumerThrows>>

mem == <<otpMap, failures, jailedUntil>>

----------------------------------------------------------------------------
(* Bounds of the model *)

MaxTime == 3          \* ticks of a sequential run
MaxTimeConc == 1      \* ticks of a concurrent run
MaxTimeBot == 1       \* ticks of a run of the bot
MaxInFlight == 2      \* save() calls in flight at once
MaxWrites == 3        \* file writes started in one concurrent run
MaxWritesSeq == 5     \* file writes started in one sequential run
MaxTimeRate == 3      \* ticks (seconds) of a run of the rate limiter
MaxCalls == 6         \* calls of the rate limiter in a run
MaxTextLen == 2       \* symbols in the text of a message put to the access control
MaxConcurrency == 2   \* the concurrency of the queue is 1..MaxConcurrency
MaxJobs == 4          \* jobs pushed to the queue in one run
MaxDrains == 2        \* calls of drain() in one run

(* Configuration of the store, in ticks *)

OtpTTL == 1
JailThreshold == 3
JailDurationMs == 2

Jids == {"a", "b"}
Codes == {"c1", "c2"}
NoKey == "undefined"
GoodKey == "K1"
OtherKey == "K2"
\* the identities the callers of a run pass in: two of them against the store
\* in memory, one against the store with a key
Callers == IF keyHex = NoKey THEN Jids ELSE {"a"}
Missing == [kind |-> "missing"]
Corrupt == [kind |-> "corrupt"]

EmptyMap == [x \in {} |-> 0]

----------------------------------------------------------------------------
(* Map<string, T> *)

MapHas(m, k) == k \in DOMAIN m
MapGet0(m, k) == IF k \in DOMAIN m THEN m[k] ELSE 0
MapSet(m, k, v) == [x \in (DOMAIN m) \cup {k} |-> IF x = k THEN v ELSE m[x]]
MapDelete(m, k) == [x \in (DOMAIN m) \ {k} |-> m[x]]

----------------------------------------------------------------------------
(* Observations *)

Ev(name, jid, at, ok) == [name |-> name, jid |-> jid, at |-> at, ok |-> ok]

Ret(r, code, expiresAt) == [r |-> r, code |-> code, expiresAt |-> expiresAt]
RetTrue == Ret("true", "", 0)
RetFalse == Ret("false", "", 0)
RetBool(b) == IF b THEN RetTrue ELSE RetFalse
RetPending == Ret("pending", "", 0)
RetNone == Ret("none", "", 0)
ThrownJidRequired == Ret("throw: jid required", "", 0)
ThrownJailed(until) == Ret("throw: Jailed until", "", until)
ThrownListener == Ret("throw: listener error", "", 0)
ThrownIo == Ret("throw: save rejected", "", 0)

\* kind: "call" (the method is suspended at an await), "return" (it was called
\* and returned in this step), "resume" (it returned after its await), "io", "tick"
\* saved: "none" (the method called no save()), "started", or how its save() stood
\* when the method returned: "writing", "written", "failed", "nokey"
Obs(kind, op, jid, code, ret, ev, saved) ==
  [kind |-> kind, op |-> op, jid |-> jid, code |-> code, ret |-> ret,
   ev |-> ev, saved |-> saved]
ObsIdle(kind) == Obs(kind, "none", "", "", RetNone, <<>>, "none")

\* a chat reply of the bot; shows: the pairing code that its text contains, ""
\* if none (every reply goes to msg.key.remoteJid, the chat the message came from)
Msg(text, shows) == [text |-> text, shows |-> shows]
NoMsg == Msg("none", "")

\* the message that isMessageAllowed is asked about (strings: sequences of symbols)
Message(text, from, isGroup, groupJid) ==
  [text |-> text, from |-> from, isGroup |-> isGroup, groupJid |-> groupJid]

\* a question to the access control: the function, its arguments, and the
\* answer once it is answered
Question(fn, opts, command, jid, answered, answer) ==
  [fn |-> fn, opts |-> opts, command |-> command, jid |-> jid,
   answered |-> answered, answer |-> answer]
NoQuestion == Question("none", Message(<<>>, <<>>, FALSE, <<>>), <<>>, <<>>, FALSE, FALSE)

\* EventEmitter.emit: listeners run synchronously; one that throws makes emit
\* throw.  thr is the index of the emission whose listener throws (0: none).
ThrowChoices == IF consumerThrows THEN 0..2 ELSE {0}
Emitted(evs, thr) == IF thr \in 1..Len(evs) THEN SubSeq(evs, 1, thr) ELSE evs
EmitThrows(evs, thr) == thr \in 1..Len(evs)

----------------------------------------------------------------------------
(* Constructor *)

ValidKey(k) == k \in {GoodKey, OtherKey}
Constructor(optKey) == IF optKey # NoKey /\ ~ValidKey(optKey) THEN NoKey ELSE optKey

(* Persistence *)

Snapshot(o, f, j) == [otps |-> o, failures |-> f, jailed |-> j]
encryptObject(obj, key) == [kind |-> "enc", key |-> key, obj |-> obj]

\* readFile + decryptObject: a missing file makes readFile throw, a malformed
\* envelope or a tag that does not verify under the key makes decryption throw
decryptObject_NoTagCheck(b64, key) ==
  IF b64.kind # "enc"
  THEN [ok |-> FALSE, obj |-> Snapshot(EmptyMap, EmptyMap, EmptyMap)]
  ELSE [ok |-> TRUE, obj |-> b64.obj]

decryptObject(b64, key) ==
  IF b64.kind # "enc" \/ b64.key # key
  THEN [ok |-> FALSE, obj |-> Snapshot(EmptyMap, EmptyMap, EmptyMap)]
  ELSE [ok |-> TRUE, obj |-> b64.obj]

\* what the promise returned by save() settles to once its write has ended:
\* the try/catch turns every failure into the value false
saveSettles_NoCatch(st) ==
  IF st = "written" THEN "true" ELSE IF st = "failed" THEN "reject" ELSE "false"

saveSettles(st) ==
  IF st = "written" THEN "true" ELSE "false"

\* whether the method awaits the save() it starts at this site
saveAwaited_GenerateDetached(site) == site \notin {"recordFailure", "generate"}

saveAwaited(site) == site # "recordFailure"

NoSnap == [kind |-> "none"]

PendingRec(site, op, jid, code, val, evs, o, f, j) ==
  [site |-> site, op |-> op, jid |-> jid, code |-> code, val |-> val, evs |-> evs,
   awaited |-> saveAwaited(site),
   st |-> IF keyHex = NoKey THEN "nokey" ELSE "writing",
   snap |-> IF keyHex = NoKey THEN NoSnap ELSE encryptObject(Snapshot(o, f, j), keyHex)]

RemoveAt(s, i) == [k \in 1..(Len(s) - 1) |-> IF k < i THEN s[k] ELSE s[k + 1]]

Apply(o, f, j) == otpMap' = o /\ failures' = f /\ jailedUntil' = j

\* a method returns (or throws) in this step without having called save()
ReturnNow(op, jid, code, val, evs, thr) ==
  /\ last' = Obs("return", op, jid, code,
                 IF EmitThrows(evs, thr) THEN ThrownListener ELSE val,
                 Emitted(evs, thr), "none")
  /\ UNCHANGED <<pending, writes>>

\* the method has updated the maps to o, f, j and calls save(): the snapshot is
\* taken now; an awaiting method is suspended, the others go on to emit evs
\* and return val in the same step
save(site, op, jid, code, val, evs, thr, o, f, j) ==
  /\ Len(pending) < MaxInFlight
  /\ keyHex # NoKey => writes < (IF caller = "concurrent" THEN MaxWrites ELSE MaxWritesSeq)
  /\ writes' = IF keyHex = NoKey THEN writes ELSE writes + 1
  /\ Apply(o, f, j)
  /\ IF saveAwaited(site)
     THEN /\ pending' = Append(pending, PendingRec(site, op, jid, code, val, evs, o, f, j))
          /\ last' = Obs("call", op, jid, code, RetPending, <<>>, "started")
     ELSE /\ pending' = IF keyHex = NoKey THEN pending
                        ELSE Append(pending, PendingRec(site, op, jid, code, val, evs, o, f, j))
          /\ last' = Obs("return", op, jid, code,
                         IF EmitThrows(evs, thr) THEN ThrownListener ELSE val,
                         Emitted(evs, thr),
                         IF keyHex = NoKey THEN "nokey" ELSE "writing")

----------------------------------------------------------------------------
(* Store methods *)

IsJailed_OffByOne(jid) == MapGet0(jailedUntil, jid) > now + 1

IsJailed_Never(jid) == FALSE

IsJailed_Stale(jid) == MapHas(jailedUntil, jid)

IsJailed(jid) == MapGet0(jailedUntil, jid) > now

\* history: a call on jid other than a wrong-code verify ends its streak
EndStreak(jid) == streak' = [k \in Jids |-> IF k = jid THEN 0 ELSE streak[k]]
GrowStreak(jid) ==
  streak' = [streak EXCEPT ![jid] = IF MapGet0(failures, jid) = 0 THEN 1
                                    ELSE IF @ > 0 THEN @ + 1 ELSE 0]

\* a sequential caller starts a call only when the previous one has returned
CanCall == caller = "concurrent" \/ \A i \in 1..Len(pending) : ~pending[i].awaited

generatedOtpMap_KeepOld(jid, code, expiresAt) ==
  IF MapHas(otpMap, jid) THEN otpMap
  ELSE MapSet(otpMap, jid, [code |-> code, expiresAt |-> expiresAt])

generatedOtpMap(jid, code, expiresAt) ==
  MapSet(otpMap, jid, [code |-> code, expiresAt |-> expiresAt])

generate(jid, code, thr) ==
  /\ CanCall
  /\ UNCHANGED <<env, otpFile>>
  /\ IF jid = ""
     THEN /\ ReturnNow("generate", jid, "", ThrownJidRequired, <<>>, thr)
          /\ UNCHANGED <<mem, wins>>
     ELSE IF IsJailed(jid)
     THEN /\ ReturnNow("generate", jid, "", ThrownJailed(jailedUntil[jid]),
                       <<Ev("attemptWhileJailed", jid, jailedUntil[jid], FALSE)>>, thr)
          /\ UNCHANGED <<mem, wins>>
     ELSE LET expiresAt == now + OtpTTL IN
          /\ save("generate", "generate", jid, code, Ret("entry", code, expiresAt),
                  <<Ev("generated", jid, expiresAt, FALSE)>>, thr,
                  generatedOtpMap(jid, code, expiresAt), failures, jailedUntil)
          /\ wins' = [wins EXCEPT ![jid] = 0]
  /\ EndStreak(jid)

\* a failure that counts twice
recordFailure_CountsTwice(jid) ==
  LET prev == MapGet0(failures, jid)
      current == prev + 2
  IN IF current > 0 /\ current % JailThreshold = 0
     THEN [jailed |-> TRUE, until |-> now + JailDurationMs,
           failures |-> MapSet(failures, jid, 0),
           jailedUntil |-> MapSet(jailedUntil, jid, now + JailDurationMs)]
     ELSE [jailed |-> FALSE, until |-> 0,
           failures |-> MapSet(failures, jid, current),
           jailedUntil |-> jailedUntil]

recordFailure_NoReset(jid) ==
  LET prev == MapGet0(failures, jid)
      current == prev + 1
  IN IF current > 0 /\ current % JailThreshold = 0
     THEN [jailed |-> TRUE, until |-> now + JailDurationMs,
           failures |-> MapSet(failures, jid, current),
           jailedUntil |-> MapSet(jailedUntil, jid, now + JailDurationMs)]
     ELSE [jailed |-> FALSE, until |-> 0,
           failures |-> MapSet(failures, jid, current),
           jailedUntil |-> jailedUntil]

recordFailure(jid) ==
  LET prev == MapGet0(failures, jid)
      current == prev + 1
  IN IF current > 0 /\ current % JailThreshold = 0
     THEN [jailed |-> TRUE, until |-> now + JailDurationMs,
           failures |-> MapSet(failures, jid, 0),
           jailedUntil |-> MapSet(jailedUntil, jid, now + JailDurationMs)]
     ELSE [jailed |-> FALSE, until |-> 0,
           failures |-> MapSet(failures, jid, current),
           jailedUntil |-> jailedUntil]

verifiedOtpMap_Kept(jid) == otpMap
verifiedOtpMap(jid) == MapDelete(otpMap, jid)

expiredOtpMap_Kept(jid) == otpMap
expiredOtpMap(jid) == MapDelete(otpMap, jid)

verifiedFailures_Kept(jid) == failures
verifiedFailures(jid) == MapDelete(failures, jid)

\* an attempt without an entry that is counted as a failure
missingEntry_Counted(jid) ==
  [failures |-> recordFailure(jid).failures,
   jailedUntil |-> recordFailure(jid).jailedUntil,
   ev |-> <<Ev("failed", jid, 0, FALSE)>>]

\* if (!entry) return false: nothing is counted, nothing is emitted
missingEntry(jid) == [failures |-> failures, jailedUntil |-> jailedUntil, ev |-> <<>>]

verify(jid, code, thr) ==
  /\ CanCall
  /\ UNCHANGED <<env, otpFile>>
  /\ IF IsJailed(jid)
     THEN /\ ReturnNow("verify", jid, code, RetFalse,
                       <<Ev("verifyBlocked", jid, jailedUntil[jid], FALSE)>>, thr)
          /\ UNCHANGED <<mem, wins>>
     ELSE IF ~MapHas(otpMap, jid)
     THEN /\ ReturnNow("verify", jid, code, RetFalse, missingEntry(jid).ev, thr)
          /\ Apply(otpMap, missingEntry(jid).failures, missingEntry(jid).jailedUntil)
          /\ UNCHANGED wins
     ELSE IF otpMap[jid].expiresAt <= now
     THEN /\ save("verify", "verify", jid, code, RetFalse,
                  <<Ev("expired", jid, 0, FALSE)>>, thr,
                  expiredOtpMap(jid), failures, jailedUntil)
          /\ UNCHANGED wins
     ELSE IF otpMap[jid].code = code
     THEN /\ save("verify", "verify", jid, code, RetTrue,
                  <<Ev("verified", jid, 0, FALSE)>>, thr,
                  verifiedOtpMap(jid), verifiedFailures(jid), jailedUntil)
          /\ wins' = [wins EXCEPT ![jid] = @ + 1]
     ELSE LET res == recordFailure(jid) IN
          /\ save("recordFailure", "verify", jid, code, RetFalse,
                  (IF res.jailed THEN <<Ev("jailed", jid, res.until, FALSE)>> ELSE <<>>)
                    \o <<Ev("failed", jid, 0, FALSE)>>, thr,
                  otpMap, res.failures, res.jailedUntil)
          /\ UNCHANGED wins
  /\ IF ~IsJailed(jid) /\ MapHas(otpMap, jid) /\ otpMap[jid].expiresAt > now
        /\ otpMap[jid].code # code
     THEN GrowStreak(jid) ELSE EndStreak(jid)

delete_ClearsJail(jid, thr) ==
  /\ CanCall
  /\ UNCHANGED <<env, otpFile, wins>>
  /\ LET ok == MapHas(otpMap, jid) IN
     IF ok
     THEN save("delete", "delete", jid, "", RetTrue, <<Ev("deleted", jid, 0, TRUE)>>, thr,
               MapDelete(otpMap, jid), failures, MapDelete(jailedUntil, jid))
     ELSE /\ ReturnNow("delete", jid, "", RetFalse, <<Ev("deleted", jid, 0, FALSE)>>, thr)
          /\ UNCHANGED mem
  /\ EndStreak(jid)

delete(jid, thr) ==
  /\ CanCall
  /\ UNCHANGED <<env, otpFile, wins>>
  /\ LET ok == MapHas(otpMap, jid) IN
     IF ok
     THEN save("delete", "delete", jid, "", RetTrue, <<Ev("deleted", jid, 0, TRUE)>>, thr,
               MapDelete(otpMap, jid), failures, jailedUntil)
     ELSE /\ ReturnNow("delete", jid, "", RetFalse, <<Ev("deleted", jid, 0, FALSE)>>, thr)
          /\ UNCHANGED mem
  /\ EndStreak(jid)

\* the test of both sweeps of cleanup(): v.expiresAt <= now, v <= now
IsExpired_Strict(at) == at < now

IsExpired(at) == at <= now

cleanup ==
  /\ CanCall
  /\ UNCHANGED <<env, otpFile, wins, streak>>
  /\ LET expired == {k \in DOMAIN otpMap : IsExpired(otpMap[k].expiresAt)}
         freed == {k \in DOMAIN jailedUntil : IsExpired(jailedUntil[k])}
         o == [k \in (DOMAIN otpMap) \ expired |-> otpMap[k]]
         j == [k \in (DOMAIN jailedUntil) \ freed |-> jailedUntil[k]]
         changed == expired # {}
     IN IF changed
        THEN save("cleanup", "cleanup", "", "", RetTrue, <<>>, 0, o, failures, j)
        ELSE /\ ReturnNow("cleanup", "", "", RetFalse, <<>>, 0)
             /\ Apply(otpMap, failures, j)

unjail_ClearsFailures(jid, thr) ==
  /\ CanCall
  /\ UNCHANGED <<env, otpFile, wins>>
  /\ LET had == MapHas(jailedUntil, jid) IN
     IF had
     THEN save("unjail", "unjail", jid, "", RetTrue, <<Ev("unjailed", jid, 0, FALSE)>>, thr,
               otpMap, MapDelete(failures, jid), MapDelete(jailedUntil, jid))
     ELSE /\ ReturnNow("unjail", jid, "", RetFalse, <<>>, thr)
          /\ UNCHANGED mem
  /\ EndStreak(jid)

unjail(jid, thr) ==
  /\ CanCall
  /\ UNCHANGED <<env, otpFile, wins>>
  /\ LET had == MapHas(jailedUntil, jid) IN
     IF had
     THEN save("unjail", "unjail", jid, "", RetTrue, <<Ev("unjailed", jid, 0, FALSE)>>, thr,
               otpMap, failures, MapDelete(jailedUntil, jid))
     ELSE /\ ReturnNow("unjail", jid, "", RetFalse, <<>>, thr)
          /\ UNCHANGED mem
  /\ EndStreak(jid)

NoCli == EmptyMap

\* listJailed(): a copy of jailedUntil, every entry of it
listJailed == jailedUntil

\* the keys of the object m, written one after the other
JidOrder == <<"a", "b">>
RECURSIVE KeysFrom(_, _)
KeysFrom(m, i) ==
  IF i > Len(JidOrder) THEN ""
  ELSE (IF MapHas(m, JidOrder[i]) THEN JidOrder[i] ELSE "") \o KeysFrom(m, i + 1)
Keys(m) == KeysFrom(m, 1)

\* a call of listJailed(): it returns at once, the store unchanged
listJailedCall ==
  /\ CanCall
  /\ ReturnNow("listJailed", "", "", Ret("listed", Keys(listJailed), 0), <<>>, 0)
  /\ UNCHANGED <<env, mem, otpFile, wins, streak>>

\* cli.ts, the command `unjail <target>`, run in a process of its own with the
\* key and the data directory of the bot: loadOtpStore makes a store and loads
\* the file, unjail(target) deletes the record from that store and saves it;
\* the command prints 'Unjailed' when there was a record.  The maps and the
\* saves in flight of the running bot are in another process
cliUnjail(target) ==
  LET dec == decryptObject(otpFile, keyHex)
      loaded == IF keyHex = NoKey \/ ~dec.ok
                THEN Snapshot(EmptyMap, EmptyMap, EmptyMap) ELSE dec.obj
      had == MapHas(loaded.jailed, target)
  IN /\ otpFile' = IF had /\ keyHex # NoKey
                   THEN encryptObject(Snapshot(loaded.otps, loaded.failures,
                                               MapDelete(loaded.jailed, target)), keyHex)
                   ELSE otpFile
     /\ cli' = IF had THEN MapSet(cli, target, loaded.jailed[target]) ELSE cli
     /\ last' = Obs("return", "cli unjail", target, "", RetBool(had), <<>>,
                    IF had THEN "written" ELSE "none")
     /\ UNCHANGED <<env, mem, pending, wins, streak, writes, config, configFile, bot,
                    sent, access, asked, rate, asyncQueue>>

----------------------------------------------------------------------------
(* The file system and the event loop *)

\* fs.promises.writeFile of a save() in flight completes
writeFile(i) ==
  /\ i \in 1..Len(pending)
  /\ pending[i].st = "writing"
  /\ otpFile' = pending[i].snap
  /\ pending' = IF pending[i].awaited
                THEN [pending EXCEPT ![i].st = "written", ![i].snap = NoSnap]
                ELSE RemoveAt(pending, i)
  /\ last' = Obs("io", "writeFile", pending[i].jid, "", RetNone, <<>>, "written")
  /\ UNCHANGED <<env, mem, wins, streak, writes, botVars>>

\* mkdir or writeFile of a save() in flight fails
writeFails(i) ==
  /\ i \in 1..Len(pending)
  /\ pending[i].st = "writing"
  /\ pending' = IF pending[i].awaited
                THEN [pending EXCEPT ![i].st = "failed", ![i].snap = NoSnap]
                ELSE RemoveAt(pending, i)
  /\ last' = Obs("io", "writeFile", pending[i].jid, "", RetNone, <<>>, "failed")
  /\ UNCHANGED <<env, mem, otpFile, wins, streak, writes, botVars>>

\* the method suspended at `await this.save()` resumes
resume(i, thr) ==
  /\ i \in 1..Len(pending)
  /\ pending[i].awaited
  /\ pending[i].st # "writing"
  /\ LET p == pending[i]
         rejected == saveSettles(p.st) = "reject" /\ p.site # "unjail"
     IN last' = Obs("resume", p.op, p.jid, p.code,
                    IF rejected THEN ThrownIo
                    ELSE IF EmitThrows(p.evs, thr) THEN ThrownListener ELSE p.val,
                    IF rejected THEN <<>> ELSE Emitted(p.evs, thr),
                    p.st)
  /\ pending' = RemoveAt(pending, i)
  /\ UNCHANGED <<env, mem, otpFile, wins, streak, writes>>

load ==
  /\ LET dec == decryptObject(otpFile, keyHex) IN
     IF keyHex = NoKey \/ ~dec.ok
     THEN /\ last' = Obs("return", "load", "", "", RetFalse, <<>>, "none")
          /\ UNCHANGED <<mem, wins>>
     ELSE /\ otpMap' = dec.obj.otps
          /\ failures' = [k \in (DOMAIN failures) \cup (DOMAIN dec.obj.failures) |->
                            IF k \in DOMAIN dec.obj.failures
                            THEN dec.obj.failures[k] ELSE failures[k]]
          /\ jailedUntil' = [k \in (DOMAIN jailedUntil) \cup (DOMAIN dec.obj.jailed) |->
                               IF k \in DOMAIN dec.obj.jailed
                               THEN dec.obj.jailed[k] ELSE jailedUntil[k]]
          /\ last' = Obs("return", "load", "", "", RetTrue, <<>>, "none")
          /\ wins' = [k \in Jids |-> 0]
  /\ UNCHANGED <<env, otpFile, pending, streak, writes, botVars>>

Tick ==
  /\ now < (IF caller = "concurrent" THEN MaxTimeConc
            ELSE IF caller = "handler" THEN MaxTimeBot
            ELSE IF caller = "limiter" THEN MaxTimeRate ELSE MaxTime)
  /\ now' = now + 1
  /\ last' = ObsIdle("tick")
  /\ sent' = NoMsg
  /\ UNCHANGED <<keyHex, caller, consumerThrows, mem, otpFile, pending, wins, streak,
                 writes, config, configFile, bot, access, cli, rate, asyncQueue>>
  /\ asked' = NoQuestion

----------------------------------------------------------------------------

(* bot.ts: configuration *)

NoPasscode == "undefined"
NoChannel == "undefined"
Direct == "direct"
Remotes == {"g1@g.us", "g2@g.us", Direct}
IsGroup(remote) == remote # Direct

\* parsedConfig as start() reads it; trusted: pairing.trustedNumbers, admins:
\* the identities for which isAdmin and isAdminCommandAllowed both hold
Config(passcode, trusted, admins, adminChannel, enforce, silent, webhook) ==
  [passcode |-> passcode, trusted |-> trusted, admins |-> admins,
   adminChannel |-> adminChannel, enforceChannel |-> enforce,
   silentFail |-> silent, webhook |-> webhook]

NoConfig == Config(NoPasscode, {}, {}, NoChannel, FALSE, TRUE, FALSE)

\* the configurations of a run: identity a is a trusted number, b an admin or
\* nobody; an admin channel, when configured, is enforced
Configs ==
  {Config(p, {"a"}, ad, x[1], x[1] # NoChannel, x[2], x[3]) :
     p \in {NoPasscode, "c1"}, ad \in {{}, {"b"}},
     x \in {<<NoChannel, TRUE, FALSE>>, <<NoChannel, FALSE, TRUE>>,
            <<"g1@g.us", TRUE, TRUE>>, <<"g1@g.us", FALSE, FALSE>>}}

checkPairingPasscode(entered) ==
  IF config.passcode = NoPasscode THEN TRUE
  ELSE entered # "" /\ entered = config.passcode

isTrustedNumber_Anyone(jid) == TRUE

isTrustedNumber(jid) == jid \in config.trusted
isAdminUser(jid) == jid \in config.admins

(* bot.ts: the handler of one message, between its awaits *)

BotAt(pc, sender, remote, provided, passOk, otpOk, valid, code, expiresAt, wh) ==
  [pc |-> pc, sender |-> sender, remote |-> remote, provided |-> provided,
   passOk |-> passOk, otpOk |-> otpOk, valid |-> valid, code |-> code,
   expiresAt |-> expiresAt, wh |-> wh]
BotIdle == BotAt("idle", "", "", "", FALSE, FALSE, FALSE, "", 0, "none")

\* history: the code supplied is the sender's unexpired entry and the sender is
\* not jailed, at the moment verify is called
ValidOtp(jid, code) ==
  /\ MapHas(otpMap, jid) /\ otpMap[jid].expiresAt > now /\ otpMap[jid].code = code
  /\ ~(MapGet0(jailedUntil, jid) > now)

\* a message "!adminpair" or "!adminpair <provided>" arrives from sender in the
\* chat remote: the admin-channel and authorization gates, the acknowledgement,
\* and the first store call of the command
adminpair(sender, remote, provided, code) ==
  /\ bot.pc = "idle"
  /\ UNCHANGED <<config, configFile>>
  /\ IF /\ config.enforceChannel /\ config.adminChannel # NoChannel
        /\ remote # config.adminChannel /\ ~isAdminUser(sender)
     THEN /\ sent' = IF config.silentFail THEN NoMsg ELSE Msg("restricted", "")
          /\ bot' = BotIdle
          /\ UNCHANGED storeVars
     ELSE IF ~isTrustedNumber(sender) /\ ~isAdminUser(sender)
     THEN /\ sent' = IF config.silentFail THEN NoMsg ELSE Msg("not authorized", "")
          /\ bot' = BotIdle
          /\ UNCHANGED storeVars
     ELSE IF provided # ""
     THEN /\ verify(sender, provided, 0)
          /\ sent' = Msg("executing", provided)
          /\ bot' = BotAt(IF last'.kind = "return" THEN "verified" ELSE "awaitVerify",
                          sender, remote, provided, checkPairingPasscode(provided),
                          last'.ret = RetTrue, ValidOtp(sender, provided), "", 0, "none")
     ELSE /\ generate(sender, code, 0)
          /\ IF last'.kind = "return"
             THEN /\ sent' = Msg("failed to generate: " \o last'.ret.r, "")
                  /\ bot' = BotIdle
             ELSE /\ sent' = Msg("executing", "")
                  /\ bot' = BotAt("awaitGenerate", sender, remote, "", FALSE, FALSE,
                                  FALSE, "", 0, "none")

\* the store call the handler awaits returns
resumeHandler(i) ==
  /\ bot.pc \in {"awaitVerify", "awaitDelete", "awaitGenerate", "awaitUnjail"}
  /\ i \in 1..Len(pending) /\ pending[i].op # "cleanup"
  /\ resume(i, 0)
  /\ bot' = IF bot.pc = "awaitVerify"
            THEN [bot EXCEPT !.pc = "verified", !.otpOk = (last'.ret = RetTrue)]
            ELSE IF bot.pc = "awaitDelete"
            THEN [bot EXCEPT !.pc = "deleted"]
            ELSE IF bot.pc = "awaitUnjail"
            THEN BotIdle
            ELSE [bot EXCEPT !.pc = "generated", !.code = last'.ret.code,
                             !.expiresAt = last'.ret.expiresAt]
  /\ sent' = IF bot.pc = "awaitUnjail"
             THEN Msg(IF last'.ret = RetTrue THEN "unjailed" ELSE "no jailed entry",
                      bot.provided)
             ELSE NoMsg
  /\ UNCHANGED <<config, configFile>>

\* if (passOk || otpOk): the pairing is accepted and the sender's entry deleted
adminpairVerified ==
  /\ bot.pc = "verified"
  /\ UNCHANGED <<config, configFile>>
  /\ IF bot.passOk \/ bot.otpOk
     THEN /\ delete(bot.sender, 0)
          /\ bot' = [bot EXCEPT !.pc = IF last'.kind = "return" THEN "deleted"
                                       ELSE "awaitDelete"]
          /\ sent' = NoMsg
     ELSE /\ sent' = Msg("invalid or expired", "")
          /\ bot' = BotIdle
          /\ UNCHANGED storeVars

\* after the delete: adminHelpers.setAdminChannel when no admin channel was
\* configured at startup and the message came from a group; how is its outcome
setAdminChannel(how) ==
  /\ bot.pc = "deleted"
  /\ UNCHANGED <<config, storeVars>>
  /\ bot' = BotIdle
  /\ IF config.adminChannel = NoChannel /\ IsGroup(bot.remote)
     THEN IF how = "true"
          THEN /\ configFile' = bot.remote
               /\ sent' = Msg("accepted: admin channel configured", "")
          ELSE /\ UNCHANGED configFile
               /\ sent' = Msg("accepted: failed to persist", "")
     ELSE /\ how = "true"
          /\ UNCHANGED configFile
          /\ sent' = Msg("accepted", "")

WebhookOutcomes ==
  IF config.webhook THEN {"ok", "bad status", "timeout"} ELSE {"disabled"}

\* after the generate: the webhook delivery ends with outcome wh (ok: a
\* response with status 200, 201 or 204)
deliverPairingWebhook(wh) ==
  /\ bot.pc = "generated"
  /\ UNCHANGED <<config, configFile, storeVars>>
  /\ bot' = [bot EXCEPT !.pc = "delivered", !.wh = wh]
  /\ sent' = NoMsg

\* the reply to a request without code, after the delivery attempt
pairingReply_AlwaysCode(wh, isTrusted, code) == Msg("pairing code", code)

pairingReply(wh, isTrusted, code) ==
  IF wh = "ok" THEN Msg("delivered via webhook", "")
  ELSE IF isTrusted THEN Msg("pairing code", code)
  ELSE IF ~config.silentFail THEN Msg("contact an admin", "")
  ELSE NoMsg

adminpairGenerated ==
  /\ bot.pc = "delivered"
  /\ UNCHANGED <<config, configFile, storeVars>>
  /\ bot' = BotIdle
  /\ sent' = pairingReply(bot.wh, isTrustedNumber(bot.sender), bot.code)

----------------------------------------------------------------------------

(* accessControl.ts: createAccessControl(cfg) *)

\* A string is a sequence of symbols.  undefined and '' are both <<>>: every
\* use below tests its argument with !value.  A list of the configuration is
\* the set of its entries (undefined and [] are both {}).
Str(s) == <<s>>

AccessConfig(mode, whitelist, blacklist, admin, options) ==
  [mode |-> mode, whitelist |-> whitelist, blacklist |-> blacklist,
   admin |-> admin, options |-> options]
Whitelist(commands, groups, contacts, prefixes) ==
  [commands |-> commands, groups |-> groups, contacts |-> contacts,
   prefixes |-> prefixes]
Blacklist(patterns, groups, contacts, prefixes) ==
  [patterns |-> patterns, groups |-> groups, contacts |-> contacts,
   prefixes |-> prefixes]
NoObject == [undefined |-> TRUE]
Admin(commands, whitelist) == [commands |-> commands, whitelist |-> whitelist]
Options(partial, individuals, groups) ==
  [allowPartialMatches |-> partial, disallowIndividuals |-> individuals,
   disallowGroups |-> groups]

NoAccess ==
  AccessConfig("default", Whitelist({}, {}, {}, {}), Blacklist({}, {}, {}, {}),
               Admin({}, NoObject), Options(FALSE, FALSE, FALSE))

\* value.startsWith(p), value.includes(p)
StartsWith(value, p) == Len(p) <= Len(value) /\ SubSeq(value, 1, Len(p)) = p
Includes(value, p) ==
  \E i \in 0..(Len(value) - Len(p)) : SubSeq(value, i + 1, i + Len(p)) = p

matchWithOption(list, value) ==
  IF value = <<>> \/ list = {} THEN FALSE
  ELSE IF access.options.allowPartialMatches THEN \E p \in list : Includes(value, p)
  ELSE value \in list

matchPrefix(list, value) ==
  IF value = <<>> \/ list = {} THEN FALSE
  ELSE \E p \in list : StartsWith(value, p)

isContactWhitelisted(jid) == jid # <<>> /\ matchWithOption(access.whitelist.contacts, jid)
isGroupWhitelisted(groupJid) ==
  groupJid # <<>> /\ matchWithOption(access.whitelist.groups, groupJid)
isContactBlacklisted(jid) == jid # <<>> /\ matchWithOption(access.blacklist.contacts, jid)
isGroupBlacklisted(groupJid) ==
  groupJid # <<>> /\ matchWithOption(access.blacklist.groups, groupJid)
isPrefixBlacklisted(jid) == matchPrefix(access.blacklist.prefixes, jid)

\* new RegExp(p, 'i').test(text), for a pattern p without metacharacters: text
\* contains p, letter case ignored
ToLower(c) == IF c = "A" THEN "a" ELSE c
Lower(str) == [i \in 1..Len(str) |-> ToLower(str[i])]
RegExpTest(p, text) == Includes(Lower(text), Lower(p))

isTextBlacklisted_Never(text) == FALSE

isTextBlacklisted(text) ==
  text # <<>> /\ \E p \in access.blacklist.patterns : RegExpTest(p, text)

isCommandWhitelisted(command) ==
  command # <<>> /\ command \in access.whitelist.commands

\* (text || '').trim().split(/\s+/)[0]
IsSpace(c) == c = " "
RECURSIVE trimStart(_)
trimStart(text) ==
  IF text # <<>> /\ IsSpace(Head(text)) THEN trimStart(Tail(text)) ELSE text
RECURSIVE UpToSpace(_)
UpToSpace(text) ==
  IF text = <<>> \/ IsSpace(Head(text)) THEN <<>>
  ELSE <<Head(text)>> \o UpToSpace(Tail(text))
FirstToken(text) == UpToSpace(trimStart(text))

hasAnyWhitelist_Always == TRUE

hasAnyWhitelist ==
  \/ access.whitelist.commands # {} \/ access.whitelist.contacts # {}
  \/ access.whitelist.groups # {} \/ access.whitelist.prefixes # {}

whitelistMatch(opts) ==
  \/ isContactWhitelisted(opts.from)
  \/ matchPrefix(access.whitelist.prefixes, opts.from)
  \/ opts.isGroup /\ isGroupWhitelisted(opts.groupJid)
  \/ isCommandWhitelisted(FirstToken(opts.text))

isMessageAllowed(opts) ==
  IF access.options.disallowIndividuals /\ ~opts.isGroup THEN FALSE
  ELSE IF access.options.disallowGroups /\ opts.isGroup THEN FALSE
  ELSE IF isContactBlacklisted(opts.from) \/ isPrefixBlacklisted(opts.from) THEN FALSE
  ELSE IF opts.isGroup /\ isGroupBlacklisted(opts.groupJid) THEN FALSE
  ELSE IF isTextBlacklisted(opts.text) THEN FALSE
  ELSE IF access.mode = "blacklist" THEN TRUE
  ELSE IF access.mode = "whitelist"
  THEN IF ~hasAnyWhitelist THEN FALSE ELSE whitelistMatch(opts)
  ELSE IF ~hasAnyWhitelist THEN TRUE ELSE whitelistMatch(opts)

isAdminCommandAllowed_NoWhitelist(command, jid) ==
  IF command = <<>> THEN FALSE
  ELSE ~(access.admin.commands # {} /\ command \notin access.admin.commands)

isAdminCommandAllowed(command, jid) ==
  IF command = <<>> THEN FALSE
  ELSE IF access.admin.commands # {} /\ command \notin access.admin.commands THEN FALSE
  ELSE IF access.admin.whitelist = NoObject THEN TRUE
  ELSE IF command \in access.admin.whitelist.commands THEN TRUE
  ELSE \/ jid # <<>> /\ matchWithOption(access.admin.whitelist.contacts, jid)
       \/ jid # <<>> /\ matchPrefix(access.admin.whitelist.prefixes, jid)

\* the caller evaluates the function it asked for
answerMessage ==
  /\ asked.fn = "isMessageAllowed" /\ ~asked.answered
  /\ asked' = [asked EXCEPT !.answered = TRUE, !.answer = isMessageAllowed(asked.opts)]
  /\ UNCHANGED <<storeVars, config, configFile, bot, sent, access, cli, rate, asyncQueue>>

answerAdmin ==
  /\ asked.fn = "isAdminCommandAllowed" /\ ~asked.answered
  /\ asked' = [asked EXCEPT !.answered = TRUE,
                            !.answer = isAdminCommandAllowed(asked.command, asked.jid)]
  /\ UNCHANGED <<storeVars, config, configFile, bot, sent, access, cli, rate, asyncQueue>>

(* bot.ts: the sliding-window rate limiter and the messages.upsert pipeline *)

WindowSec == 1
PerSender == 1
GlobalPer == 2

\* senderTimestamps.get(senderId) || []
senderTimestamps(senderId) ==
  IF MapHas(rate.sender, senderId) THEN rate.sender[senderId] ELSE <<>>

\* a pruning that forgets every timestamp, whatever its age
pruneArray_All(arr, cutoff) == <<>>

RECURSIVE pruneArray(_, _)
pruneArray(arr, cutoff) ==
  IF arr # <<>> /\ Head(arr) < cutoff THEN pruneArray(Tail(arr), cutoff) ELSE arr

\* isRateLimited(senderId): whether the message is dropped, and the timestamps
\* it leaves (pruning is done also when the message is dropped)
isRateLimited(senderId) ==
  LET cutoff == now - WindowSec
      global == pruneArray(rate.global, cutoff)
      senderArr == pruneArray(senderTimestamps(senderId), cutoff)
      pruned == IF MapHas(rate.sender, senderId)
                THEN MapSet(rate.sender, senderId, senderArr) ELSE rate.sender
  IN IF Len(global) >= GlobalPer
     THEN [limited |-> TRUE, reason |-> "global",
           rate |-> [rate EXCEPT !.global = global, !.decision = "global"]]
     ELSE IF Len(senderArr) >= PerSender
     THEN [limited |-> TRUE, reason |-> "sender",
           rate |-> [rate EXCEPT !.global = global, !.sender = pruned,
                                 !.decision = "sender"]]
     ELSE [limited |-> FALSE, reason |-> "none",
           rate |-> [rate EXCEPT
                       !.global = Append(global, now),
                       !.sender = MapSet(rate.sender, senderId, Append(senderArr, now)),
                       !.decision = "none"]]

\* a call of isRateLimited for a message of senderId, with its history
rateLimitCheck(senderId) ==
  /\ rate.calls < MaxCalls
  /\ rate' = [isRateLimited(senderId).rate EXCEPT
                !.passed = IF isRateLimited(senderId).limited THEN @
                           ELSE [@ EXCEPT ![senderId] = Append(@, now)],
                !.calls = @ + 1]
  /\ UNCHANGED <<storeVars, config, configFile, bot, sent, access, cli, asked, asyncQueue>>

\* handler.ts getReplyForText, on the words of the text: the marker of an admin
\* pairing command with the code it carries, the reply of a plain command, or
\* null
RECURSIVE Words(_)
Words(text) ==
  LET t == trimStart(text) IN
  IF t = <<>> THEN <<>>
  ELSE <<UpToSpace(t)>> \o Words(SubSeq(t, Len(UpToSpace(t)) + 1, Len(t)))
RECURSIVE Join(_)
Join(word) == IF word = <<>> THEN "" ELSE Head(word) \o Join(Tail(word))
Reply(kind, provided) == [kind |-> kind, provided |-> provided]
getReplyForText(text) ==
  LET w == Words(text) IN
  IF w = <<>> THEN Reply("null", "")
  ELSE IF w = <<Str("!ping")>> THEN Reply("pong", "")
  ELSE IF w[1] = Str("!adminpair") /\ Len(w) <= 2
  THEN Reply("!adminpair", IF Len(w) = 2 THEN Join(w[2]) ELSE "")
  ELSE IF w = <<Str("!setadmin")>> THEN Reply("!setadmin", "")
  ELSE IF w = <<Str("!unsetadmin")>> THEN Reply("!unsetadmin", "")
  ELSE IF w = <<Str("!listjailed")>> THEN Reply("!listjailed", "")
  ELSE IF w[1] = Str("!unjail") /\ Len(w) = 2 THEN Reply("!unjail", Join(w[2]))
  ELSE Reply("null", "")

\* the special markers for admin actions: the replies whose text is '!logout',
\* '!shutdown' or '!latency' or starts with '!adminpair'
isAdminMarker(reply) == reply.kind \in {"!logout", "!shutdown", "!latency", "!adminpair"}

\* the outcomes of adminHelpers.setAdminChannel and unsetAdminChannel
ConfigOutcomes == {"true", "false", "throw"}

\* the block of the admin markers after the acknowledgement, for a command
\* other than !adminpair: the blocks of !setadmin, !unsetadmin, !listjailed
\* and !unjail
adminManagement(sender, remote, reply) ==
  /\ bot.pc = "idle"
  /\ UNCHANGED config
  /\ IF /\ config.enforceChannel /\ config.adminChannel # NoChannel
        /\ remote # config.adminChannel /\ ~isAdminUser(sender)
     THEN /\ sent' = IF config.silentFail THEN NoMsg ELSE Msg("restricted", "")
          /\ bot' = BotIdle
          /\ UNCHANGED <<storeVars, configFile>>
     ELSE IF ~isTrustedNumber(sender) /\ ~isAdminUser(sender)
     THEN /\ sent' = IF config.silentFail THEN NoMsg ELSE Msg("not authorized", "")
          /\ bot' = BotIdle
          /\ UNCHANGED <<storeVars, configFile>>
     ELSE IF reply.kind = "!setadmin"
     THEN /\ bot' = BotIdle
          /\ UNCHANGED storeVars
          /\ \E how \in ConfigOutcomes :
               IF ~IsGroup(remote)
               THEN /\ how = "true"
                    /\ sent' = Msg("must be set from a group chat", "")
                    /\ UNCHANGED configFile
               ELSE IF how = "true"
               THEN /\ configFile' = remote
                    /\ sent' = Msg("configured as admin channel", "")
               ELSE /\ UNCHANGED configFile
                    /\ sent' = Msg("failed to persist admin channel", "")
     ELSE IF reply.kind = "!unsetadmin"
     THEN /\ bot' = BotIdle
          /\ UNCHANGED storeVars
          /\ \E how \in ConfigOutcomes :
               IF how = "true"
               THEN /\ configFile' = NoChannel
                    /\ sent' = Msg("admin channel unset", "")
               ELSE /\ UNCHANGED configFile
                    /\ sent' = Msg("failed to update config", "")
     ELSE IF reply.kind = "!listjailed"
     THEN /\ listJailedCall
          /\ sent' = Msg("jailed entries", Keys(listJailed))
          /\ bot' = BotIdle
          /\ UNCHANGED configFile
     ELSE IF reply.kind = "!unjail"
     THEN /\ UNCHANGED configFile
          /\ IF reply.provided = ""
             THEN /\ sent' = Msg("usage: !unjail <jid>", "")
                  /\ bot' = BotIdle
                  /\ UNCHANGED storeVars
             ELSE /\ unjail(reply.provided, 0)
                  /\ IF last'.kind = "return"
                     THEN /\ sent' = Msg(IF last'.ret = RetTrue THEN "unjailed"
                                         ELSE "no jailed entry", reply.provided)
                          /\ bot' = BotIdle
                     ELSE /\ sent' = Msg("executing", "")
                          /\ bot' = BotAt("awaitUnjail", sender, remote, reply.provided,
                                          FALSE, FALSE, FALSE, "", 0, "none")
     ELSE /\ sent' = Msg("executing", "")
          /\ bot' = BotIdle
          /\ UNCHANGED <<storeVars, configFile>>

\* the block of the admin markers
adminCommand(sender, remote, reply, code) ==
  IF reply.kind = "!adminpair" THEN adminpair(sender, remote, reply.provided, code)
  ELSE adminManagement(sender, remote, reply)

\* the timestamps after the access decision: a denied message is skipped
\* (continue) before isRateLimited is called
rateAfterDecision_Always(allowed, senderId) == isRateLimited(senderId).rate

rateAfterDecision(allowed, senderId) ==
  IF allowed THEN isRateLimited(senderId).rate ELSE rate

\* one message of a messages.upsert event, from sender in the chat remote: the
\* access decision, the rate limiter, getReplyForText, and the reply or the
\* first step of the admin command
messagesUpsert(sender, remote, text, code) ==
  LET opts == Message(text, Str(sender), IsGroup(remote),
                      IF IsGroup(remote) THEN Str(remote) ELSE <<>>)
      allowed == isMessageAllowed(opts)
      reply == getReplyForText(text)
  IN /\ bot.pc = "idle"
     /\ asked' = Question("isMessageAllowed", opts, <<>>, <<>>, TRUE, allowed)
     /\ rate' = rateAfterDecision(allowed, sender)
     /\ UNCHANGED <<access, cli, asyncQueue>>
     /\ IF ~allowed \/ isRateLimited(sender).limited \/ reply.kind = "null"
        THEN /\ sent' = NoMsg
             /\ UNCHANGED <<storeVars, config, configFile, bot>>
        ELSE IF isAdminMarker(reply)
        THEN adminCommand(sender, remote, reply, code)
        ELSE /\ sent' = Msg(reply.kind, reply.provided)
             /\ UNCHANGED <<storeVars, config, configFile, bot>>

\* global, sender: globalTimestamps and senderTimestamps.  History, kept when
\* the limiter is called on its own: passed (the timestamps of the messages of
\* each sender that were not dropped, never pruned), decision (the reason of the
\* latest call of isRateLimited), calls (their number)
NoRate ==
  [global |-> <<>>, sender |-> EmptyMap, passed |-> [j \in Jids |-> <<>>],
   decision |-> "init", calls |-> 0]

(* threads.ts: createQueue(concurrency) *)

\* queue holds the jobs waiting, each named by the number of its push;
\* idleResolvers is the length of that array (resolvers are not told apart);
\* ticks are the callbacks handed to process.nextTick that have not run yet, in
\* order.  History: pushed, drains (calls of push and drain so far), resolved
\* (promises of drain resolved), started (the jobs called, in order), settled
\* (the jobs whose call has ended), failed (those that rejected or threw).
AsyncQueue(concurrency, queue, running, idleResolvers, ticks, pushed, drains, resolved) ==
  [concurrency |-> concurrency, queue |-> queue, running |-> running,
   idleResolvers |-> idleResolvers, ticks |-> ticks, pushed |-> pushed,
   drains |-> drains, resolved |-> resolved,
   started |-> <<>>, settled |-> {}, failed |-> {}]
NoQueue == AsyncQueue(1, <<>>, 0, 0, <<>>, 0, 0, 0)

checkIdle_Always(q) ==
  [q EXCEPT !.idleResolvers = 0, !.resolved = @ + q.idleResolvers]

checkIdle(q) ==
  IF q.running = 0 /\ q.queue = <<>>
  THEN [q EXCEPT !.idleResolvers = 0, !.resolved = @ + q.idleResolvers]
  ELSE q

\* the finally block of runNext for job: the slot is released and the next
\* callback scheduled
finally_KeepsSlot(q, job, isFailure) ==
  [q EXCEPT !.settled = @ \cup {job},
            !.failed = IF isFailure THEN @ \cup {job} ELSE @,
            !.ticks = Append(@, "finally")]

finally(q, job, isFailure) ==
  [q EXCEPT !.running = @ - 1,
            !.settled = @ \cup {job},
            !.failed = IF isFailure THEN @ \cup {job} ELSE @,
            !.ticks = Append(@, "finally")]

\* queue.shift(); running++; job() is called
shift_Last(q) ==
  [q EXCEPT !.queue = SubSeq(@, 1, Len(@) - 1), !.running = @ + 1,
            !.started = Append(@, q.queue[Len(q.queue)])]

shift(q) ==
  [q EXCEPT !.queue = Tail(@), !.running = @ + 1, !.started = Append(@, Head(q.queue))]

runNext_NoLimit(q, throws) ==
  IF q.queue = <<>> THEN q
  ELSE IF throws THEN finally(shift(q), Head(q.queue), TRUE)
  ELSE shift(q)

\* runNext up to its await: the job taken from the queue is started; a job
\* that throws before it returns a promise goes through catch and finally at once
runNext(q, throws) ==
  IF q.running >= q.concurrency THEN q
  ELSE IF q.queue = <<>> THEN q
  ELSE IF throws THEN finally(shift(q), Head(q.queue), TRUE)
  ELSE shift(q)

QueueFrame == UNCHANGED <<storeVars, config, configFile, bot, sent, access, cli, asked, rate>>

push ==
  /\ asyncQueue.pushed < MaxJobs
  /\ asyncQueue' = [asyncQueue EXCEPT !.queue = Append(@, asyncQueue.pushed + 1),
                                      !.pushed = @ + 1,
                                      !.ticks = Append(@, "runNext")]
  /\ QueueFrame

drain ==
  /\ asyncQueue.drains < MaxDrains
  /\ asyncQueue' = IF asyncQueue.running = 0 /\ asyncQueue.queue = <<>>
                   THEN [asyncQueue EXCEPT !.drains = @ + 1, !.resolved = @ + 1]
                   ELSE [asyncQueue EXCEPT !.drains = @ + 1, !.idleResolvers = @ + 1]
  /\ QueueFrame

\* the oldest process.nextTick callback runs: runNext (after a push), or
\* runNext and checkIdle (after a job)
nextTick(throws) ==
  /\ asyncQueue.ticks # <<>>
  /\ asyncQueue' =
       LET q == [asyncQueue EXCEPT !.ticks = Tail(@)] IN
       IF Head(asyncQueue.ticks) = "runNext" THEN runNext(q, throws)
       ELSE checkIdle(runNext(q, throws))
  /\ QueueFrame

\* the jobs that were called and have not settled
Running(q) == {q.started[i] : i \in 1..Len(q.started)} \ q.settled

\* the promise of a running job settles (rejected: isFailure): runNext resumes
\* in its catch and finally blocks
jobSettles(job, isFailure) ==
  /\ job \in Running(asyncQueue)
  /\ asyncQueue' = finally(asyncQueue, job, isFailure)
  /\ QueueFrame

----------------------------------------------------------------------------

InitStore(keys, files, how, throws) ==
  /\ now = 0
  /\ keyHex \in {Constructor(k) : k \in keys}
  /\ otpMap = EmptyMap
  /\ failures = EmptyMap
  /\ jailedUntil = EmptyMap
  /\ otpFile \in files
  /\ pending = <<>>
  /\ last = ObsIdle("init")
  /\ wins = [k \in Jids |-> 0]
  /\ streak = [k \in Jids |-> 0]
  /\ writes = 0
  /\ caller = how
  /\ consumerThrows = throws

\* start(): the configuration is read once; no message has arrived
InitHandler(configs) ==
  /\ config \in configs
  /\ configFile = config.adminChannel
  /\ bot = BotIdle
  /\ sent = NoMsg
  /\ cli = NoCli /\ access = NoAccess
  /\ asked = NoQuestion
  /\ rate = NoRate
  /\ asyncQueue = NoQueue

\* the store's methods called directly (tests, command line), the bot idle
Calls ==
  \/ \E jid \in Callers \cup {""}, code \in Codes, thr \in ThrowChoices :
       generate(jid, code, thr) /\ UNCHANGED botVars
  \/ \E jid \in Callers, code \in Codes, thr \in ThrowChoices :
       verify(jid, code, thr) /\ UNCHANGED botVars
  \/ \E jid \in Callers, thr \in ThrowChoices : delete(jid, thr) /\ UNCHANGED botVars
  \/ \E jid \in Callers, thr \in ThrowChoices : unjail(jid, thr) /\ UNCHANGED botVars
  \/ cleanup /\ UNCHANGED botVars
  \/ \E i \in 1..MaxInFlight, thr \in ThrowChoices : resume(i, thr) /\ UNCHANGED botVars
  \/ Tick

\* the store without a key (in memory only), its calls awaited one by one
Init == InitStore({NoKey, "not-hex"}, {Missing}, "sequential", FALSE) /\ InitHandler({NoConfig})
Next == Calls
Spec == Init /\ [][Next]_vars

\* the same store, whose jailed identities are also listed
NextJail == Calls \/ (listJailedCall /\ UNCHANGED botVars)
SpecJail == Init /\ [][NextJail]_vars

\* the store with a key, its calls started concurrently
InitConc == InitStore({GoodKey}, {Missing}, "concurrent", FALSE) /\ InitHandler({NoConfig})
NextConc == Calls \/ \E i \in 1..MaxInFlight : writeFile(i)
SpecConc == InitConc /\ [][NextConc]_vars

\* the store with a key, its calls awaited one by one
InitSeq == InitStore({GoodKey}, {Missing}, "sequential", FALSE) /\ InitHandler({NoConfig})
SpecSeq == InitSeq /\ [][NextConc]_vars

\* the store of the running bot with a key, and the command line run beside it
NextCli == NextConc \/ \E target \in Callers : cliUnjail(target)
SpecCli == InitSeq /\ [][NextCli]_vars

\* the store with a key and concurrent calls, on a disk whose writes may fail
SpecFaulty == InitConc /\ [][NextConc \/ \E i \in 1..MaxInFlight : writeFails(i)]_vars

\* the same, with load() called at any time, on any file found in the data directory
WrongKeyFile ==
  encryptObject(Snapshot([k \in {"a"} |-> [code |-> "c1", expiresAt |-> 1]],
                         EmptyMap, EmptyMap), OtherKey)
InitLoad == InitStore({GoodKey}, {Missing, Corrupt, WrongKeyFile}, "concurrent", FALSE) /\ InitHandler({NoConfig})
SpecLoad == InitLoad /\ [][NextConc \/ load]_vars

\* the bot on a store without a key: messages handled one at a time, beside
\* the cleanup timer
InitBot == InitStore({NoKey}, {Missing}, "handler", FALSE) /\ InitHandler(Configs)
NextBot ==
  \/ \E sender \in Jids, remote \in Remotes, provided \in Codes \cup {""}, code \in Codes :
       adminpair(sender, remote, provided, code) /\ UNCHANGED sideVars
  \/ \E i \in 1..MaxInFlight : resumeHandler(i) /\ UNCHANGED sideVars
  \/ adminpairVerified /\ UNCHANGED sideVars
  \/ \E how \in {"true", "false", "throw"} : setAdminChannel(how) /\ UNCHANGED sideVars
  \/ \E wh \in WebhookOutcomes : deliverPairingWebhook(wh) /\ UNCHANGED sideVars
  \/ adminpairGenerated /\ UNCHANGED sideVars
  \/ cleanup /\ sent' = NoMsg /\ UNCHANGED <<config, configFile, bot, sideVars>>
  \/ \E i \in 1..MaxInFlight :
       /\ i \in 1..Len(pending) /\ pending[i].op = "cleanup"
       /\ resume(i, 0) /\ sent' = NoMsg /\ UNCHANGED <<config, configFile, bot, sideVars>>
  \/ Tick
SpecBot == InitBot /\ [][NextBot]_vars

\* the store without a key, with an event listener that may throw
InitThrow == InitStore({NoKey}, {Missing}, "sequential", TRUE) /\ InitHandler({NoConfig})
SpecThrow == InitThrow /\ [][Next]_vars

\* the access control, asked one question about one message or admin command:
\* texts over a small alphabet, senders and groups that match the configured
\* entries exactly, partially, by prefix or not at all
Symbols == {"a", "A", " "}
Texts == UNION {[1..n -> Symbols] : n \in 0..MaxTextLen}
Senders == {<<>>, <<"2">>, <<"1", "2">>, <<"3">>}
Chats ==
  {<<FALSE, <<>>>>, <<FALSE, <<"g">>>>, <<TRUE, <<>>>>, <<TRUE, <<"g">>>>,
   <<TRUE, <<"g", "h">>>>}
Whitelists ==
  {Whitelist({}, {}, {}, {}), Whitelist({<<"A">>}, {}, {}, {}),
   Whitelist({}, {<<"g">>}, {}, {}), Whitelist({}, {}, {<<"2">>}, {}),
   Whitelist({}, {}, {}, {<<"1">>}),
   Whitelist({<<"A">>}, {<<"g">>}, {<<"2">>}, {<<"1">>})}
Blacklists ==
  {Blacklist({}, {}, {}, {}), Blacklist({<<"a">>}, {}, {}, {}),
   Blacklist({}, {<<"g">>}, {}, {}), Blacklist({}, {}, {<<"2">>}, {}),
   Blacklist({}, {}, {}, {<<"1">>})}
MessageConfigs ==
  {AccessConfig(m, w, b, Admin({}, NoObject), Options(o[1], o[2], o[3])) :
     m \in {"default", "whitelist", "blacklist"}, w \in Whitelists, b \in Blacklists,
     o \in {<<FALSE, FALSE, FALSE>>, <<TRUE, FALSE, FALSE>>, <<FALSE, TRUE, FALSE>>,
            <<TRUE, TRUE, FALSE>>, <<FALSE, FALSE, TRUE>>, <<TRUE, FALSE, TRUE>>}}
AdminWhitelists ==
  {NoObject, Whitelist({}, {}, {}, {}), Whitelist({<<"A">>}, {}, {}, {}),
   Whitelist({}, {}, {<<"2">>}, {}), Whitelist({}, {}, {}, {<<"1">>})}
AdminConfigs ==
  {AccessConfig("default", Whitelist({}, {}, {}, {}), Blacklist({}, {}, {}, {}),
                Admin(c, w), Options(o, FALSE, FALSE)) :
     c \in {{}, {<<"A">>}, {<<"a">>}}, w \in AdminWhitelists, o \in BOOLEAN}
InitAccess ==
  /\ InitStore({NoKey}, {Missing}, "sequential", FALSE)
  /\ config = NoConfig /\ configFile = NoChannel /\ bot = BotIdle /\ sent = NoMsg
  /\ rate = NoRate /\ asyncQueue = NoQueue
  /\ \/ /\ cli = NoCli /\ access \in MessageConfigs
        /\ asked \in {Question("isMessageAllowed", Message(t, f, c[1], c[2]),
                               <<>>, <<>>, FALSE, FALSE) :
                        t \in Texts, f \in Senders, c \in Chats}
     \/ /\ cli = NoCli /\ access \in AdminConfigs
        /\ asked \in {Question("isAdminCommandAllowed", NoQuestion.opts, c, j, FALSE,
                               FALSE) :
                        c \in {<<>>, <<"A">>, <<"a">>}, j \in Senders}
NextAccess == answerMessage \/ answerAdmin
SpecAccess == InitAccess /\ [][NextAccess]_vars

\* the bot's whole pipeline on a store without a key: every message passes the
\* access control and the rate limiter before its command is handled
PipeConfig == Config("c1", {"a"}, {"b"}, NoChannel, FALSE, FALSE, FALSE)
PipeAccess ==
  {AccessConfig("default", Whitelist({}, {}, {}, {}), Blacklist({}, {}, {Str("b")}, {}),
                Admin({}, NoObject), Options(FALSE, FALSE, FALSE)),
   AccessConfig("whitelist", Whitelist({}, {Str("g1@g.us")}, {}, {}),
                Blacklist({}, {}, {}, {}), Admin({}, NoObject),
                Options(FALSE, FALSE, FALSE)),
   AccessConfig("default", Whitelist({}, {}, {}, {}), Blacklist({Str("hello")}, {}, {}, {}),
                Admin({}, NoObject), Options(FALSE, FALSE, FALSE))}
PipeTexts ==
  {Str("!adminpair"), <<"!adminpair", " ", "c1">>, <<" ", "!ping">>, Str("hello")}
InitPipe ==
  /\ InitStore({NoKey}, {Missing}, "handler", FALSE)
  /\ config = PipeConfig /\ configFile = NoChannel /\ bot = BotIdle /\ sent = NoMsg
  /\ cli = NoCli /\ access \in PipeAccess /\ asked = NoQuestion /\ rate = NoRate /\ asyncQueue = NoQueue
\* a step of the handler after the pipeline, or of the cleanup timer
AfterPipeline == asked' = NoQuestion /\ UNCHANGED <<access, cli, rate, asyncQueue>>
NextPipe ==
  \/ \E sender \in Jids, remote \in Remotes, text \in PipeTexts, code \in Codes :
       messagesUpsert(sender, remote, text, code)
  \/ \E i \in 1..MaxInFlight : resumeHandler(i) /\ AfterPipeline
  \/ adminpairVerified /\ AfterPipeline
  \/ \E how \in {"true", "false", "throw"} : setAdminChannel(how) /\ AfterPipeline
  \/ \E wh \in WebhookOutcomes : deliverPairingWebhook(wh) /\ AfterPipeline
  \/ adminpairGenerated /\ AfterPipeline
  \/ cleanup /\ sent' = NoMsg /\ UNCHANGED <<config, configFile, bot>> /\ AfterPipeline
  \/ \E i \in 1..MaxInFlight :
       /\ i \in 1..Len(pending) /\ pending[i].op = "cleanup"
       /\ resume(i, 0) /\ sent' = NoMsg /\ UNCHANGED <<config, configFile, bot>>
       /\ AfterPipeline
  \/ Tick
SpecPipe == InitPipe /\ [][NextPipe]_vars

\* the bot, sent the admin management commands and the pairing commands by a
\* trusted number (a), an admin (b) in a direct chat or a group; every message
\* passes the access control
AdminTexts ==
  {Str("!setadmin"), Str("!unsetadmin"), Str("!listjailed"), <<"!unjail", " ", "b">>,
   Str("!adminpair"), <<"!adminpair", " ", "c1">>}
InitAdmin ==
  /\ InitStore({NoKey}, {Missing}, "handler", FALSE)
  /\ config = PipeConfig /\ configFile = NoChannel /\ bot = BotIdle /\ sent = NoMsg
  /\ cli = NoCli /\ access = NoAccess /\ asked = NoQuestion /\ rate = NoRate /\ asyncQueue = NoQueue
\* the steps of the handler after an await
HandlerSteps ==
  \/ \E i \in 1..MaxInFlight : resumeHandler(i) /\ AfterPipeline
  \/ adminpairVerified /\ AfterPipeline
  \/ \E how \in ConfigOutcomes : setAdminChannel(how) /\ AfterPipeline
  \/ \E wh \in WebhookOutcomes : deliverPairingWebhook(wh) /\ AfterPipeline
  \/ adminpairGenerated /\ AfterPipeline
NextAdmin ==
  \/ \E sender \in Jids, remote \in Remotes, text \in AdminTexts, code \in Codes :
       messagesUpsert(sender, remote, text, code)
  \/ HandlerSteps
  \/ Tick
SpecAdmin == InitAdmin /\ [][NextAdmin]_vars
\* every await of the handler ends
SpecAdminFair == SpecAdmin /\ WF_vars(HandlerSteps)

\* one queue made by createQueue(n), n >= 1 (queues.ts: 1, 2 and 4): jobs are
\* pushed, drain() is called and jobs settle in any order
InitQueue ==
  /\ InitStore({NoKey}, {Missing}, "sequential", FALSE)
  /\ config = NoConfig /\ configFile = NoChannel /\ bot = BotIdle /\ sent = NoMsg
  /\ cli = NoCli /\ access = NoAccess /\ asked = NoQuestion /\ rate = NoRate
  /\ asyncQueue \in {AsyncQueue(n, <<>>, 0, 0, <<>>, 0, 0, 0) : n \in 1..MaxConcurrency}
NextQueue ==
  \/ push
  \/ drain
  \/ \E throws \in BOOLEAN : nextTick(throws)
  \/ \E job \in 1..MaxJobs, isFailure \in BOOLEAN : jobSettles(job, isFailure)
SpecQueue == InitQueue /\ [][NextQueue]_vars

\* the same, where every nextTick callback runs and every running job settles
SpecQueueFair ==
  /\ SpecQueue
  /\ WF_vars(\E throws \in BOOLEAN : nextTick(throws))
  /\ WF_vars(\E job \in 1..MaxJobs, isFailure \in BOOLEAN : jobSettles(job, isFailure))

\* the rate limiter called on its own, for messages of two senders, over more
\* seconds than the window has
InitRate ==
  /\ InitStore({NoKey}, {Missing}, "limiter", FALSE)
  /\ config = NoConfig /\ configFile = NoChannel /\ bot = BotIdle /\ sent = NoMsg
  /\ cli = NoCli /\ access = NoAccess /\ asked = NoQuestion /\ rate = NoRate /\ asyncQueue = NoQueue
NextRate == (\E senderId \in Jids : rateLimitCheck(senderId)) \/ Tick
SpecRate == InitRate /\ [][NextRate]_vars

----------------------------------------------------------------------------
(* Properties *)

JailInForce(j) == j \in DOMAIN jailedUntil /\ now < jailedUntil[j]
Active(j) == j \in DOMAIN otpMap /\ now < otpMap[j].expiresAt
EvNames(evs) == [i \in 1..Len(evs) |-> evs[i].name]
\* the step is a call of method op on identity j (not the resumption of one)
Called(op, j) == last'.op = op /\ last'.jid = j /\ last'.kind \in {"call", "return"}
Persisted == encryptObject(Snapshot(otpMap, failures, jailedUntil), keyHex)

\* C1: while an identity's jail is in force, generate throws the lockout error
\* and verify returns false (also for the stored, unexpired code); the step
\* leaves the three maps as they were and emits exactly attemptWhileJailed
\* (generate) or verifyBlocked (verify).
C1_JailedCallsRejected ==
  [][\A j \in Jids :
       (JailInForce(j) /\ (Called("generate", j) \/ Called("verify", j)))
       => /\ last'.kind = "return"
          /\ mem' = mem
          /\ last'.op = "generate" =>
               /\ last'.ret = ThrownJailed(jailedUntil[j])
               /\ last'.ev = <<Ev("attemptWhileJailed", j, jailedUntil[j], FALSE)>>
          /\ last'.op = "verify" =>
               /\ last'.ret = RetFalse
               /\ last'.ev = <<Ev("verifyBlocked", j, jailedUntil[j], FALSE)>>]_vars

C1_Witness ==
  \E j \in Jids :
    /\ JailInForce(j) /\ Active(j)
    /\ last.op = "verify" /\ last.jid = j /\ last.code = otpMap[j].code
    /\ last.ret = RetFalse /\ EvNames(last.ev) = <<"verifyBlocked">>

\* C2: counted from a failure counter of 0 on an active entry, every wrong-code
\* verify returns false and keeps the entry; after fewer than JailThreshold of
\* them in a row the identity is not jailed (its counter is their number), and
\* the JailThreshold-th jails it until now + JailDurationMs and resets the
\* counter to 0.
C2_JailAfterThreshold ==
  [][\A j \in Jids :
       (Called("verify", j) /\ streak'[j] > 0)
       => /\ last'.ret = RetFalse
          /\ last'.kind = "return"
          /\ j \in DOMAIN otpMap' /\ otpMap' = otpMap
          /\ streak'[j] <= JailThreshold
          /\ streak'[j] < JailThreshold =>
               /\ ~(j \in DOMAIN jailedUntil' /\ now < jailedUntil'[j])
               /\ jailedUntil' = jailedUntil
               /\ MapGet0(failures', j) = streak'[j]
          /\ streak'[j] = JailThreshold =>
               /\ j \in DOMAIN jailedUntil' /\ jailedUntil'[j] = now + JailDurationMs
               /\ MapGet0(failures', j) = 0]_vars

C2_Witness ==
  \E j \in Jids :
    /\ streak[j] = JailThreshold
    /\ last.op = "verify" /\ last.jid = j /\ last.ret = RetFalse
    /\ j \in DOMAIN jailedUntil /\ jailedUntil[j] = now + JailDurationMs
    /\ MapGet0(failures, j) = 0 /\ Active(j)

\* C3: verify with the stored code of an unexpired entry of an identity that is
\* not jailed deletes the entry, clears the failure counter and returns true
\* (after its save); every verify on that identity after it and before the
\* next generate returns false.
C3_VerifyConsumes ==
  [][/\ \A j \in Jids :
          (Called("verify", j) /\ ~JailInForce(j) /\ Active(j)
             /\ last'.code = otpMap[j].code)
          => /\ j \notin DOMAIN otpMap'
             /\ MapGet0(failures', j) = 0
             /\ jailedUntil' = jailedUntil
             /\ last'.kind = "call"
             /\ pending'[Len(pending')].val = RetTrue
     /\ \A j \in Jids :
          (Called("verify", j) /\ wins[j] >= 1)
          => last'.kind = "return" /\ last'.ret = RetFalse
     /\ last'.kind = "resume"
          => /\ Len(pending) = 1
             /\ last'.op = pending[1].op /\ last'.jid = pending[1].jid
             /\ last'.ret = pending[1].val
             /\ (last'.op = "verify" /\ last'.ret = RetTrue)
                  => EvNames(last'.ev) = <<"verified">>]_vars

C3_Witness ==
  \E j \in Jids :
    /\ wins[j] = 1 /\ j \notin DOMAIN otpMap
    /\ last.op = "verify" /\ last.jid = j /\ last.kind = "return"
    /\ last.ret = RetFalse /\ pending = <<>>

\* C4: with calls started concurrently, every change of the three maps happens
\* in the step of the call that makes it (never at a resumption or when a write
\* lands); for one generated code at most one verify matches; and the step
\* that removes an entry for a match clears the failure counter with it.
C4_AtomicCheckAndUpdate ==
  /\ [](\A j \in Jids : wins[j] <= 1)
  /\ [][/\ last'.kind \in {"resume", "io"} => mem' = mem
        /\ \A j \in Jids :
             (wins'[j] = wins[j] + 1)
             => /\ j \in DOMAIN otpMap /\ j \notin DOMAIN otpMap'
                /\ j \notin DOMAIN failures'
        /\ last'.kind = "resume"
             => \E i \in 1..Len(pending) :
                  /\ pending' = RemoveAt(pending, i)
                  /\ last'.op = pending[i].op /\ last'.jid = pending[i].jid
                  /\ last'.ret = pending[i].val]_vars

C4_Witness ==
  \E j \in Jids, i \in 1..Len(pending) :
    /\ wins[j] = 1
    /\ pending[i].op = "verify" /\ pending[i].jid = j /\ pending[i].val = RetTrue
    /\ last.op = "verify" /\ last.jid = j /\ last.code = pending[i].code
    /\ last.kind = "return" /\ last.ret = RetFalse

\* C5: with a key, once no call is suspended and no write is in flight, the
\* file holds the three maps as they are in memory.
C5_PersistedEqualsMemory ==
  (keyHex # NoKey /\ writes > 0 /\ pending = <<>>) => otpFile = Persisted

\* C6: after a load() that returned true the three maps equal those of the file.
C6_LoadReconstructs ==
  (last.op = "load" /\ last.ret = RetTrue)
  => /\ otpFile.kind = "enc"
     /\ Snapshot(otpMap, failures, jailedUntil) = otpFile.obj

\* C7: load() on a missing file, a malformed file or a file encrypted under
\* another key returns false and leaves the three maps as they were.
C7_FailedLoadKeepsMemory ==
  [][(last'.op = "load" /\ (otpFile.kind # "enc" \/ otpFile.key # keyHex))
     => last'.ret = RetFalse /\ mem' = mem]_vars

C7_Witness ==
  /\ last.op = "load" /\ last.ret = RetFalse
  /\ otpFile.kind = "enc" /\ otpFile.key # keyHex
  /\ DOMAIN otpMap # {}

\* C8: no store method fails with the error of an event listener.
C8_ListenerCannotFail == last.ret # ThrownListener

\* C9: a method whose save() failed resumes without throwing, returns the value
\* and emits the events it had prepared before the write, and changes none of
\* the three maps; nor does the failure of a write by itself.
C9_SaveFailureHarmless ==
  [][/\ (last'.kind = "resume" /\ last'.saved = "failed")
          => /\ mem' = mem
             /\ last'.ret.r \in {"entry", "true", "false"}
             /\ \E i \in 1..Len(pending) :
                  /\ pending[i].st = "failed"
                  /\ pending' = RemoveAt(pending, i)
                  /\ last'.ret = pending[i].val
                  /\ last'.ev = pending[i].evs
     /\ (last'.kind = "io" /\ last'.saved = "failed") => mem' = mem]_vars

C9_Witness ==
  /\ last.kind = "resume" /\ last.saved = "failed"
  /\ last.op = "generate" /\ last.ret.r = "entry"
  /\ last.jid \in DOMAIN otpMap /\ otpMap[last.jid].code = last.ret.code

\* C10 as claimed: with a key and no failing write, a generate or verify that
\* changed the maps returns only after its write has landed.
C10_WrittenBeforeReturn ==
  (keyHex # NoKey /\ last.op \in {"generate", "verify"}
     /\ last.kind \in {"return", "resume"} /\ last.saved # "none")
  => last.saved = "written"

\* C10 as amended: generate, and verify after a match or on an expired entry,
\* return and emit generated / verified / expired only after the write they
\* started has landed; a wrong-code verify returns while its write is in flight.
C10_AwaitedWritesLand ==
  (keyHex # NoKey /\ last.op \in {"generate", "verify"}
     /\ last.kind \in {"return", "resume"})
  => /\ \A i \in 1..Len(last.ev) :
          last.ev[i].name \in {"generated", "verified", "expired"}
          => last.kind = "resume" /\ last.saved = "written"
     /\ (last.saved # "none" /\ last.saved # "written")
          => /\ last.saved = "writing"
             /\ last.ret = RetFalse
             /\ EvNames(last.ev)[Len(last.ev)] = "failed"
     /\ last.ret.r \in {"entry", "true"} => last.saved = "written"

C10_Witness ==
  /\ last.op = "generate" /\ last.kind = "resume" /\ last.saved = "written"
  /\ EvNames(last.ev) = <<"generated">>
  /\ otpFile.kind = "enc" /\ last.jid \in DOMAIN otpFile.obj.otps

\* C11: with a key, a cleanup() that removes anything, an expired entry or an
\* expired jail record, starts a write of the three maps as it leaves them.
C11_CleanupPersists ==
  [][(Called("cleanup", "") /\ keyHex # NoKey /\ mem' # mem)
     => /\ last'.saved = "started"
        /\ pending'[Len(pending')].snap =
             encryptObject(Snapshot(otpMap', failures', jailedUntil'), keyHex)]_vars

\* C12: cleanup() removes exactly the OTP entries with expiresAt <= now and the
\* jail records with until <= now, keeps every other entry and record and all
\* failure counters, and returns true iff it removed an OTP entry; it leaves
\* nothing that a cleanup() at the same time would remove, and a cleanup() that
\* finds nothing expired (so one called right after another that returned at
\* this time) changes nothing and returns false.
C12_CleanupExact ==
  [][/\ Called("cleanup", "")
          => LET expired == {k \in DOMAIN otpMap : otpMap[k].expiresAt <= now}
                 freed == {k \in DOMAIN jailedUntil : jailedUntil[k] <= now}
             IN /\ otpMap' = [k \in (DOMAIN otpMap) \ expired |-> otpMap[k]]
                /\ jailedUntil' = [k \in (DOMAIN jailedUntil) \ freed |-> jailedUntil[k]]
                /\ failures' = failures
                /\ IF expired # {}
                   THEN last'.kind = "call" /\ pending'[Len(pending')].val = RetTrue
                   ELSE last'.kind = "return" /\ last'.ret = RetFalse
                /\ \A k \in DOMAIN otpMap' : otpMap'[k].expiresAt > now
                /\ \A k \in DOMAIN jailedUntil' : jailedUntil'[k] > now
                /\ (expired = {} /\ freed = {})
                     => last'.ret = RetFalse /\ mem' = mem
     /\ (last'.kind = "resume" /\ last'.op = "cleanup")
          => last'.ret = RetTrue /\ mem' = mem
     /\ (last.op = "cleanup" /\ last.kind = "return" /\ Called("cleanup", ""))
          => last'.kind = "return" /\ last'.ret = RetFalse /\ mem' = mem]_vars

C12_Witness ==
  /\ last.op = "cleanup" /\ last.kind = "resume" /\ last.ret = RetTrue
  /\ \E j \in Jids : Active(j)
  /\ \E j \in Jids : JailInForce(j) /\ j \notin DOMAIN otpMap
  /\ DOMAIN failures # {}

\* C13: an identity whose jail is in force (now < until) has failure counter 0.
C13_JailedCounterZero ==
  \A j \in Jids : JailInForce(j) => MapGet0(failures, j) = 0

C13_Witness ==
  \E j \in Jids :
    /\ JailInForce(j) /\ j \in DOMAIN failures /\ failures[j] = 0
    /\ last.op = "verify" /\ last.jid = j /\ EvNames(last.ev) = <<"verifyBlocked">>
    /\ Active(j)

\* the write record of the call that the step has just suspended
Suspended == pending'[Len(pending')]

\* C14 as claimed: generate on an identity that has an unexpired entry replaces
\* the entry by the {code, expiresAt} it returns, expiresAt = now + OtpTTL, and
\* leaves the failure counters and the jail records as they were.
C14_GenerateReplaces ==
  [][\A j \in Jids :
       (Called("generate", j) /\ Active(j))
       => /\ otpMap' = MapSet(otpMap, j, [code |-> last'.code, expiresAt |-> now + OtpTTL])
          /\ failures' = failures /\ jailedUntil' = jailedUntil
          /\ last'.kind = "call"
          /\ Suspended.val = Ret("entry", last'.code, now + OtpTTL)]_vars

\* C14 as amended: the same for an identity that is not jailed, whose entry at
\* the return of generate is the one returned; on a jailed identity generate
\* throws and the unexpired entry stays.
C14_GenerateReplacesUnlessJailed ==
  [][/\ \A j \in Jids :
          /\ (Called("generate", j) /\ Active(j) /\ ~JailInForce(j))
               => /\ otpMap' = MapSet(otpMap, j, [code |-> last'.code,
                                                  expiresAt |-> now + OtpTTL])
                  /\ failures' = failures /\ jailedUntil' = jailedUntil
                  /\ last'.kind = "call"
                  /\ Suspended.val = Ret("entry", last'.code, now + OtpTTL)
          /\ (Called("generate", j) /\ Active(j) /\ JailInForce(j))
               => /\ mem' = mem
                  /\ last'.ret = ThrownJailed(jailedUntil[j])
     /\ (last'.kind = "resume" /\ last'.op = "generate")
          => /\ mem' = mem
             /\ last'.ret.r = "entry"
             /\ otpMap'[last'.jid] = [code |-> last'.ret.code,
                                      expiresAt |-> last'.ret.expiresAt]]_vars

C14_Witness ==
  \E j \in Jids :
    /\ now = 0 /\ MapGet0(failures, j) = 1
    /\ last.op = "generate" /\ last.jid = j /\ last.kind = "resume"
    /\ last.ret.r = "entry"
    /\ otpMap[j] = [code |-> last.ret.code, expiresAt |-> OtpTTL]

\* C15: once a jail has ended, by its until having elapsed (reaped or not) or
\* by unjail, generate stores and returns an entry and verify is answered from
\* the entry, never verifyBlocked.  A jail in force ends only by a tick or by
\* unjail, and the failure counter is 0 when it ends; the counter grows only by
\* one, at a wrong-code verify; and a jail is set only by the wrong-code verify
\* that finds the counter at JailThreshold - 1.
C15_JailEnds ==
  [][\A j \in Jids :
       /\ (Called("generate", j) /\ ~JailInForce(j))
            => /\ last'.kind = "call" /\ Suspended.val.r = "entry"
               /\ j \in DOMAIN otpMap'
       /\ (Called("verify", j) /\ ~JailInForce(j))
            => /\ \A i \in 1..Len(last'.ev) : last'.ev[i].name # "verifyBlocked"
               /\ (Active(j) /\ last'.code = otpMap[j].code)
                    => last'.kind = "call" /\ Suspended.val = RetTrue
               /\ (Active(j) /\ last'.code # otpMap[j].code)
                    => MapGet0(failures', j) = (MapGet0(failures, j) + 1) % JailThreshold
       /\ Called("unjail", j) => j \notin DOMAIN jailedUntil'
       /\ (JailInForce(j) /\ ~JailInForce(j)')
            => /\ MapGet0(failures', j) = 0
               /\ last'.kind = "tick" \/ (last'.op = "unjail" /\ last'.jid = j)
       /\ MapGet0(failures', j) > MapGet0(failures, j)
            => /\ MapGet0(failures', j) = MapGet0(failures, j) + 1
               /\ Called("verify", j) /\ Active(j) /\ last'.code # otpMap[j].code
       /\ (~JailInForce(j) /\ JailInForce(j)')
            => /\ Called("verify", j) /\ Active(j) /\ last'.code # otpMap[j].code
               /\ MapGet0(failures, j) = JailThreshold - 1]_vars

C15_Witness ==
  \E j \in Jids :
    /\ j \in DOMAIN jailedUntil /\ jailedUntil[j] <= now
    /\ last.op = "verify" /\ last.jid = j /\ last.ret = RetFalse
    /\ EvNames(last.ev) = <<"failed">>
    /\ MapGet0(failures, j) = 1

\* C16 as claimed: verify on an entry with expiresAt <= now, whatever the code,
\* deletes the entry, returns false after emitting expired, and leaves the
\* failure counters and the jail records as they were.
C16_ExpiredVerify ==
  [][/\ \A j \in Jids :
          (Called("verify", j) /\ j \in DOMAIN otpMap /\ otpMap[j].expiresAt <= now)
          => /\ otpMap' = MapDelete(otpMap, j)
             /\ failures' = failures /\ jailedUntil' = jailedUntil
             /\ last'.kind = "call"
             /\ Suspended.val = RetFalse
             /\ EvNames(Suspended.evs) = <<"expired">>]_vars

\* C16 as amended: the same for an identity that is not jailed; on a jailed
\* identity verify returns false with verifyBlocked and the expired entry stays.
C16_ExpiredVerifyUnlessJailed ==
  [][/\ \A j \in Jids :
          /\ (Called("verify", j) /\ j \in DOMAIN otpMap /\ otpMap[j].expiresAt <= now
                 /\ ~JailInForce(j))
               => /\ otpMap' = MapDelete(otpMap, j)
                  /\ failures' = failures /\ jailedUntil' = jailedUntil
                  /\ last'.kind = "call"
                  /\ Suspended.val = RetFalse
                  /\ EvNames(Suspended.evs) = <<"expired">>
          /\ (Called("verify", j) /\ j \in DOMAIN otpMap /\ otpMap[j].expiresAt <= now
                 /\ JailInForce(j))
               => /\ mem' = mem
                  /\ last'.ret = RetFalse
                  /\ EvNames(last'.ev) = <<"verifyBlocked">>
     /\ (last'.kind = "resume" /\ last'.op = "verify" /\ last'.ret = RetFalse)
          => mem' = mem /\ EvNames(last'.ev) = <<"expired">>]_vars

C16_Witness ==
  \E j \in Jids :
    /\ last.op = "verify" /\ last.jid = j /\ last.kind = "resume"
    /\ last.ret = RetFalse /\ EvNames(last.ev) = <<"expired">>
    /\ j \notin DOMAIN otpMap /\ MapGet0(failures, j) > 0

\* C17: delete(jid) removes the identity's entry if there is one, returns true
\* iff there was one, emits deleted with that flag, and leaves every failure
\* counter and every jail record as it was.
C17_DeleteFrame ==
  [][/\ \A j \in Jids :
          Called("delete", j)
          => /\ otpMap' = MapDelete(otpMap, j)
             /\ failures' = failures /\ jailedUntil' = jailedUntil
             /\ IF j \in DOMAIN otpMap
                THEN /\ last'.kind = "call"
                     /\ Suspended.val = RetTrue
                     /\ Suspended.evs = <<Ev("deleted", j, 0, TRUE)>>
                ELSE /\ last'.kind = "return"
                     /\ last'.ret = RetFalse
                     /\ last'.ev = <<Ev("deleted", j, 0, FALSE)>>
     /\ (last'.kind = "resume" /\ last'.op = "delete")
          => /\ mem' = mem
             /\ last'.ret = RetTrue
             /\ last'.ev = <<Ev("deleted", last'.jid, 0, TRUE)>>]_vars

C17_Witness ==
  \E j \in Jids :
    /\ last.op = "delete" /\ last.jid = j /\ last.kind = "resume" /\ last.ret = RetTrue
    /\ JailInForce(j) /\ j \notin DOMAIN otpMap
    /\ \E k \in Jids : MapGet0(failures, k) > 0

\* C18: unjail(jid) removes the identity's jail record; it returns true and
\* emits unjailed iff there was one, returns false and emits nothing otherwise,
\* and leaves every OTP entry and failure counter as it was.
C18_UnjailFrame ==
  [][/\ \A j \in Jids :
          Called("unjail", j)
          => /\ jailedUntil' = MapDelete(jailedUntil, j)
             /\ otpMap' = otpMap /\ failures' = failures
             /\ IF j \in DOMAIN jailedUntil
                THEN /\ last'.kind = "call"
                     /\ Suspended.val = RetTrue
                     /\ Suspended.evs = <<Ev("unjailed", j, 0, FALSE)>>
                ELSE /\ last'.kind = "return"
                     /\ last'.ret = RetFalse
                     /\ last'.ev = <<>>
     /\ (last'.kind = "resume" /\ last'.op = "unjail")
          => /\ mem' = mem
             /\ last'.ret = RetTrue
             /\ last'.ev = <<Ev("unjailed", last'.jid, 0, FALSE)>>]_vars

C18_Witness ==
  \E j \in Jids :
    /\ last.op = "unjail" /\ last.jid = j /\ last.kind = "resume" /\ last.ret = RetTrue
    /\ j \notin DOMAIN jailedUntil /\ Active(j) /\ j \in DOMAIN failures

\* the code supplied with the request being handled is the configured static
\* passcode, or was the sender's valid OTP when verify was called
PasscodeOrOtp ==
  \/ config.passcode # NoPasscode /\ bot.provided = config.passcode
  \/ bot.valid

\* C19: a pairing request with a code is accepted, and the admin channel
\* written to config.json, only if the code is the configured static passcode
\* or the sender's valid OTP; in every other case, also with no static
\* passcode configured, the reply is the rejection and nothing is written.
C19_AcceptedOnlyIfValid ==
  [][/\ (bot.pc = "verified" /\ bot'.pc \in {"deleted", "awaitDelete"}) => PasscodeOrOtp
     /\ configFile' # configFile => PasscodeOrOtp
     /\ (bot.pc = "verified" /\ ~PasscodeOrOtp)
          => sent'.text = "invalid or expired" /\ configFile' = configFile]_vars

\* the reply of this step shows the pairing code that the request being
\* handled has generated, or the one that the store holds for its sender
ShowsGenerated ==
  /\ sent'.shows # ""
  /\ \/ sent'.shows = bot.code
     \/ /\ MapHas(otpMap, bot'.sender)
        /\ otpMap[bot'.sender].code = sent'.shows

\* C20 as claimed: a reply shows a generated pairing code only if its requester
\* is a trusted number, and the reply to the request itself only after a
\* webhook delivery that did not succeed.
C20_CodeOnlyToTrusted ==
  [][ShowsGenerated
     => IF bot.pc = "delivered"
        THEN bot.wh # "ok" /\ isTrustedNumber(bot.sender)
        ELSE isTrustedNumber(bot'.sender)]_vars

\* C20 as amended: a reply to the request that generated a code shows it only
\* after a delivery that did not succeed and to a trusted number; after a
\* delivery that succeeded, or to an admin who is not trusted, the reply shows
\* no code.  The only other reply that shows a code is the acknowledgement of
\* "!adminpair <code>", which repeats the code the sender supplied.
C20_RequestReplyOnlyToTrusted ==
  [][/\ (sent'.shows # "" /\ bot.pc # "idle")
          => /\ bot.pc = "delivered" /\ bot.wh # "ok"
             /\ isTrustedNumber(bot.sender)
             /\ sent'.shows = bot.code
     /\ (bot.pc = "delivered" /\ (bot.wh = "ok" \/ ~isTrustedNumber(bot.sender)))
          => sent'.shows = ""
     /\ (sent'.shows # "" /\ bot.pc = "idle")
          => sent'.text = "executing" /\ sent'.shows = bot'.provided]_vars

C20_Witness ==
  /\ sent.text = "pairing code" /\ sent.shows \in Codes
  /\ config.webhook
  /\ \E j \in config.trusted : MapHas(otpMap, j) /\ otpMap[j].code = sent.shows

\* C21: a request without code reaches generate only for a sender that is a
\* trusted number or an allowed admin; an entry of the store is created or
\* replaced only by such a generate, so a request of anybody else leaves the
\* entries as they were.
C21_GenerateOnlyAuthorized ==
  [][\A j \in Jids :
       /\ (bot.pc = "idle" /\ Called("generate", j))
            => j \in config.trusted \cup config.admins
       /\ (MapHas(otpMap', j) /\ (~MapHas(otpMap, j) \/ otpMap'[j] # otpMap[j]))
            => /\ bot.pc = "idle" /\ Called("generate", j)
               /\ j \in config.trusted \cup config.admins
       /\ (bot.pc = "idle" /\ bot'.pc = "idle" /\ last'.jid = j
             /\ j \notin config.trusted \cup config.admins)
            => otpMap' = otpMap]_vars

C21_Witness ==
  /\ bot.pc = "generated"
  /\ bot.sender \in config.admins \ config.trusted
  /\ MapHas(otpMap, bot.sender) /\ otpMap[bot.sender].code = bot.code

\* the replies whose text is fixed by the handler (a pairing code apart)
GenericReplies ==
  {"none", "restricted", "not authorized", "executing", "invalid or expired",
   "accepted", "accepted: admin channel configured", "accepted: failed to persist",
   "delivered via webhook", "pairing code", "contact an admin", "failed to generate"}

\* C22: every reply to a failed operation is one of the handler's fixed generic
\* messages; no reply contains the message of the error that generate threw
\* (the lockout error with the end of the jail).
C22_FailureRepliesGeneric ==
  /\ sent.text \in GenericReplies
  /\ sent.text # "failed to generate: " \o ThrownJailed(0).r

\* C23: with admin.enforceChannel true and an admin channel configured, an
\* admin command is executed (acknowledged, its store call made) only if the
\* message came from the admin channel, whoever the sender is.
C23_ExecutedOnlyFromChannel ==
  [][(/\ config.enforceChannel /\ config.adminChannel # NoChannel
      /\ bot.pc = "idle" /\ bot'.pc # "idle")
     => /\ sent'.text = "executing"
        /\ bot'.remote = config.adminChannel]_vars

\* C24: an accepted pairing writes the admin channel to config.json only when
\* none is configured at that moment; once one accepted pairing has set it, a
\* later accepted pairing from another group does not overwrite it.
C24_ChannelSetOnce ==
  [][configFile' # configFile => configFile = NoChannel]_vars

\* a deny rule matches the message: it is excluded by disallowIndividuals or
\* disallowGroups, its sender matches a blacklisted contact or prefix, its
\* group (for a group message) a blacklisted group, or its text a pattern
Excluded(m) ==
  \/ access.options.disallowIndividuals /\ ~m.isGroup
  \/ access.options.disallowGroups /\ m.isGroup
  \/ matchWithOption(access.blacklist.contacts, m.from)
  \/ matchPrefix(access.blacklist.prefixes, m.from)
  \/ m.isGroup /\ matchWithOption(access.blacklist.groups, m.groupJid)
  \/ \E p \in access.blacklist.patterns : RegExpTest(p, m.text)

\* the sender, the group or the command of the message is whitelisted
Whitelisted(m) ==
  \/ matchWithOption(access.whitelist.contacts, m.from)
  \/ matchPrefix(access.whitelist.prefixes, m.from)
  \/ m.isGroup /\ matchWithOption(access.whitelist.groups, m.groupJid)
  \/ FirstToken(m.text) # <<>> /\ FirstToken(m.text) \in access.whitelist.commands

NoWhitelistEntry ==
  /\ access.whitelist.commands = {} /\ access.whitelist.contacts = {}
  /\ access.whitelist.groups = {} /\ access.whitelist.prefixes = {}

Answered(fn) == asked.fn = fn /\ asked.answered

\* C26: isMessageAllowed is deny-first: a message that a deny rule matches is
\* denied in every mode, also when its sender, group or command is whitelisted.
C26_DenyFirst ==
  (Answered("isMessageAllowed") /\ Excluded(asked.opts)) => asked.answer = FALSE

C26_Witness ==
  /\ Answered("isMessageAllowed") /\ asked.answer = FALSE
  /\ access.mode = "whitelist" /\ Whitelisted(asked.opts)
  /\ \E p \in access.blacklist.patterns : RegExpTest(p, asked.opts.text)
  /\ FirstToken(asked.opts.text) \in access.whitelist.commands

\* C27: a message that no deny rule matches is allowed in blacklist mode; in
\* whitelist mode it is allowed iff its sender, group or first token is
\* whitelisted (never with zero whitelist entries); in default mode it is
\* allowed if there is no whitelist entry at all, and otherwise iff the same
\* match holds.
C27_AllowRule ==
  (Answered("isMessageAllowed") /\ ~Excluded(asked.opts))
  => asked.answer = (IF access.mode = "blacklist" THEN TRUE
                     ELSE IF access.mode = "whitelist" THEN Whitelisted(asked.opts)
                     ELSE NoWhitelistEntry \/ Whitelisted(asked.opts))

C27_Witness ==
  /\ Answered("isMessageAllowed") /\ ~Excluded(asked.opts)
  /\ access.mode = "whitelist" /\ access.whitelist.commands # {}
  /\ access.whitelist.contacts = {}
  /\ asked.opts.text # FirstToken(asked.opts.text)
  /\ asked.answer = TRUE

\* C28: isAdminCommandAllowed(command, jid) is true exactly when the command is
\* non-empty, is in admin.commands whenever that list is non-empty, and there
\* is no admin.whitelist object, or the command is in admin.whitelist.commands,
\* or jid matches admin.whitelist's contacts or prefixes.
C28_AdminCommandRule ==
  Answered("isAdminCommandAllowed")
  => asked.answer =
       (/\ asked.command # <<>>
        /\ access.admin.commands # {} => asked.command \in access.admin.commands
        /\ \/ access.admin.whitelist = NoObject
           \/ asked.command \in access.admin.whitelist.commands
           \/ matchWithOption(access.admin.whitelist.contacts, asked.jid)
           \/ matchPrefix(access.admin.whitelist.prefixes, asked.jid))

C28_Witness ==
  /\ Answered("isAdminCommandAllowed") /\ asked.answer = TRUE
  /\ access.admin.whitelist # NoObject
  /\ asked.command \notin access.admin.whitelist.commands
  /\ access.admin.commands # {}
  /\ access.options.allowPartialMatches /\ asked.jid \notin access.admin.whitelist.contacts

\* C25: a message that isMessageAllowed denies causes no rate-limit
\* bookkeeping, no command handling, no store operation and no reply.
C25_DeniedMessageIgnored ==
  [][(asked'.fn = "isMessageAllowed" /\ asked'.answered /\ ~asked'.answer)
     => /\ rate' = rate
        /\ bot.pc = "idle" /\ bot' = bot
        /\ UNCHANGED <<storeVars, configFile>>
        /\ sent' = NoMsg]_vars

C25_Witness ==
  /\ asked.fn = "isMessageAllowed" /\ asked.answered /\ ~asked.answer
  /\ getReplyForText(asked.opts.text).kind = "!adminpair"
  /\ asked.opts.from = Str("a") /\ isTrustedNumber("a")
  /\ rate.global # <<>> /\ Len(senderTimestamps("a")) < PerSender
  /\ ~MapHas(otpMap, "a")

\* C29: for a queue made by createQueue(n), never more than n jobs are running.
C29_AtMostNRunning == asyncQueue.running <= asyncQueue.concurrency

C29_Witness ==
  /\ asyncQueue.running = asyncQueue.concurrency /\ asyncQueue.concurrency > 1
  /\ asyncQueue.queue # <<>> /\ asyncQueue.ticks # <<>>

\* C30: drain() resolves only at a moment when no job is running and none is
\* waiting; it resolves at once when the queue is idle; and, every job
\* settling, a pending drain is eventually resolved, also when jobs are pushed
\* while it is pending.
C30_DrainResolvesWhenIdle ==
  /\ [][/\ asyncQueue'.resolved > asyncQueue.resolved
             => asyncQueue'.running = 0 /\ asyncQueue'.queue = <<>>
        /\ (asyncQueue'.drains > asyncQueue.drains
              /\ asyncQueue.running = 0 /\ asyncQueue.queue = <<>>)
             => /\ asyncQueue'.resolved = asyncQueue.resolved + 1
                /\ asyncQueue'.idleResolvers = asyncQueue.idleResolvers]_vars
  /\ \A k \in 1..MaxDrains :
       (asyncQueue.drains = k) ~> (asyncQueue.resolved >= k)

C30_Witness ==
  /\ asyncQueue.drains = MaxDrains /\ asyncQueue.resolved = MaxDrains
  /\ asyncQueue.pushed = MaxJobs /\ asyncQueue.idleResolvers = 0
  /\ asyncQueue.running = 0 /\ asyncQueue.queue = <<>>

StartedJobs == {asyncQueue.started[i] : i \in 1..Len(asyncQueue.started)}

\* C31: every job pushed is started exactly once and jobs are started in push
\* order; every job pushed is eventually started (every started job settling);
\* with concurrency 1 a job starts only after the job pushed before it has
\* settled.
C31_StartedOnceInOrder ==
  /\ [](/\ Len(asyncQueue.started) <= asyncQueue.pushed
        /\ \A i \in 1..Len(asyncQueue.started) : asyncQueue.started[i] = i
        /\ \A i \in 1..Len(asyncQueue.queue) :
             asyncQueue.queue[i] = Len(asyncQueue.started) + i
        /\ asyncQueue.concurrency = 1
             => \A i \in 2..Len(asyncQueue.started) :
                  asyncQueue.started[i - 1] \in asyncQueue.settled)
  /\ \A k \in 1..MaxJobs : (asyncQueue.pushed >= k) ~> (k \in StartedJobs)

C31_Witness ==
  /\ asyncQueue.concurrency = 1 /\ asyncQueue.pushed = MaxJobs
  /\ Len(asyncQueue.started) = MaxJobs /\ asyncQueue.running = 1
  /\ asyncQueue.failed = {}

\* C33: a job that rejects or throws does not stop the queue: its slot is
\* released exactly once (the running count is the number of jobs called and
\* not settled), every job pushed, before or after it, is still run to its
\* end, and a pending drain() is still resolved.
C33_FailedJobReleasesSlot ==
  /\ [](asyncQueue.running = Cardinality(Running(asyncQueue)))
  /\ [][\A j \in asyncQueue'.failed \ asyncQueue.failed :
          asyncQueue'.running = Cardinality(Running(asyncQueue))
                                - (IF j \in Running(asyncQueue) THEN 1 ELSE 0)]_vars
  /\ \A k \in 1..MaxJobs :
       (asyncQueue.failed # {} /\ asyncQueue.pushed >= k) ~> (k \in asyncQueue.settled)
  /\ (asyncQueue.failed # {} /\ asyncQueue.idleResolvers > 0)
       ~> (asyncQueue.idleResolvers = 0 /\ asyncQueue.running = 0
           /\ asyncQueue.queue = <<>>)

C33_Witness ==
  /\ \E j \in asyncQueue.failed, k \in asyncQueue.settled : j < k
  /\ asyncQueue.drains > 0 /\ asyncQueue.resolved = asyncQueue.drains
  /\ asyncQueue.failed = asyncQueue.settled \ {asyncQueue.pushed}
  /\ asyncQueue.pushed = MaxJobs

\* the messages of sender j that passed the limiter with a timestamp in t..u
PassedIn(j, t, u) ==
  Cardinality({i \in 1..Len(rate.passed[j]) : rate.passed[j][i] \in t..u})
RECURSIVE SumPassed(_, _, _)
SumPassed(S, t, u) ==
  IF S = {} THEN 0
  ELSE LET j == CHOOSE x \in S : TRUE IN PassedIn(j, t, u) + SumPassed(S \ {j}, t, u)

WrongCodeVerify(j) ==
  /\ Called("verify", j) /\ ~JailInForce(j) /\ Active(j)
  /\ last'.code # otpMap[j].code

\* C34: under generate, verify, delete, cleanup and unjail the failure counter
\* of every identity stays within 0..JailThreshold-1; a wrong-code verify on
\* an active entry raises it by exactly one (to 0 when that reaches
\* JailThreshold), no other step raises it, and it returns to 0 only by a
\* successful verify or by reaching JailThreshold.
C34_FailureCounterRange ==
  /\ [](\A j \in Jids : MapGet0(failures, j) \in 0..(JailThreshold - 1))
  /\ [][\A j \in Jids :
          LET before == MapGet0(failures, j)
              after == MapGet0(failures', j)
          IN /\ WrongCodeVerify(j) => after = (before + 1) % JailThreshold
             /\ after # before => Called("verify", j)
             /\ after > before => WrongCodeVerify(j) /\ after = before + 1
             /\ after < before =>
                  /\ after = 0
                  /\ \/ /\ Called("verify", j) /\ ~JailInForce(j) /\ Active(j)
                        /\ last'.code = otpMap[j].code
                     \/ WrongCodeVerify(j) /\ before + 1 = JailThreshold]_vars

C34_Witness ==
  \E j \in Jids :
    /\ MapGet0(failures, j) = JailThreshold - 1
    /\ last.op = "verify" /\ last.jid = j /\ last.ret = RetFalse
    /\ MapHas(jailedUntil, j) /\ ~JailInForce(j) /\ Active(j)

\* C35: verify for an identity that has no entry and whose jail is not in force
\* returns false at once, emits no event and leaves the entries, the failure
\* counters and the jail records as they were.
C35_NoEntryNotCounted ==
  [][\A j \in Jids :
       (Called("verify", j) /\ ~JailInForce(j) /\ ~MapHas(otpMap, j))
       => /\ last'.kind = "return" /\ last'.ret = RetFalse /\ last'.ev = <<>>
          /\ last'.saved = "none"
          /\ failures' = failures /\ jailedUntil' = jailedUntil /\ otpMap' = otpMap]_vars

C35_Witness ==
  \E j \in Jids :
    /\ last.op = "verify" /\ last.jid = j /\ last.ret = RetFalse /\ last.ev = <<>>
    /\ ~MapHas(otpMap, j) /\ ~MapHas(jailedUntil, j)
    /\ MapGet0(failures, j) = JailThreshold - 1

\* C36: a pairing request that is accepted because the code supplied equals the
\* configured passcode leaves the failure counter and the jail record of the
\* sender as they were, whether or not the sender has an active entry.
C36_PasscodeNotCounted ==
  [][(/\ bot.pc = "idle" /\ bot'.pc # "idle"
      /\ config.passcode # NoPasscode /\ bot'.provided = config.passcode)
     => /\ bot'.passOk
        /\ failures' = failures
        /\ jailedUntil' = jailedUntil]_vars

\* identity j is among the keys written in listing
Listed(j, listing) ==
  \E S \in SUBSET Jids : j \in S /\ listing = Keys([k \in S |-> 0])

\* C37: every identity that listJailed() returns is blocked at that moment, its
\* until later than now; an identity whose jail has expired is not listed.
C37_ListedAreBlocked ==
  last.op = "listJailed" => \A j \in Jids : Listed(j, last.ret.code) => JailInForce(j)

\* the message just handled passed the access control and the rate limiter, its
\* sender is a trusted number or an authorized admin, and it asks for command
Requested(command) ==
  /\ asked.fn = "isMessageAllowed" /\ asked.answer /\ rate.decision = "none"
  /\ getReplyForText(asked.opts.text).kind = command
  /\ isTrustedNumber(Join(asked.opts.from)) \/ isAdminUser(Join(asked.opts.from))

\* C38: when a trusted or authorized-admin sender sends !setadmin, !unsetadmin,
\* !listjailed or !unjail <jid>, the bot eventually performs the action: it
\* replies with the outcome of setting or unsetting the admin channel, with
\* the jailed entries, or with the outcome of unjail(jid) called on the store.
C38_ManagementPerformed ==
  /\ Requested("!setadmin")
       ~> (sent.text \in {"configured as admin channel", "failed to persist admin channel",
                          "must be set from a group chat"})
  /\ Requested("!unsetadmin") ~> (sent.text \in {"admin channel unset", "failed to update config"})
  /\ Requested("!listjailed") ~> (sent.text = "jailed entries")
  /\ Requested("!unjail")
       ~> (last.op = "unjail" /\ sent.text \in {"unjailed", "no jailed entry"})

\* C39: once the command `unjail <jid>` has reported success beside a running
\* bot on the same file, the bot no longer blocks the identity, and no later
\* save of the bot puts the removed jail record back into the file.
C39_CliUnjailHolds ==
  /\ [](\A j \in Jids :
          (last.op = "cli unjail" /\ last.jid = j /\ last.ret = RetTrue)
          => ~JailInForce(j))
  /\ [][\A j \in DOMAIN cli :
          (last'.kind = "io" /\ last'.saved = "written")
          => ~(/\ otpFile'.kind = "enc" /\ MapHas(otpFile'.obj.jailed, j)
               /\ otpFile'.obj.jailed[j] = cli[j])]_vars

====
